---- MODULE Spec2Model ----
(***************************************************************************)
(* Verification model of the osteopathy timetable planner.                 *)
(*                                                                         *)
(*   Part I   models.py       Schedule / ScheduledBlock (conflict model)   *)
(*   Part II  scheduler.py    Scheduler.schedule_subjects (date variant)   *)
(*   Part III data_loader.py  _parse_weeks_expr / _expand_availability     *)
(*   Part IV  scheduler.py    Subject / Scheduler construction             *)
(*   Part V   scheduler.py    Scheduler.get_top_lecturers                  *)
(*   Part VI  validate_input.py  validate_data                             *)
(*   Part VII the three-phase block allocator (create_schedule), whose     *)
(*            code is not in the repository's scheduler.py: modelled from  *)
(*            its specification, on models.py's entities and Schedule      *)
(*                                                                         *)
(* Each part has its own specification over its own variables; the         *)
(* variables of the other parts stay at their idle values.                 *)
(***************************************************************************)
EXTENDS Integers, Sequences, FiniteSets, TLC

VARIABLES
    \* Part I: models.Schedule
    blocks,      \* Schedule.blocks, a list of ScheduledBlock
    ret,         \* value returned by the last Schedule method call
    arg,         \* the last Schedule method call: its name and argument
    \* Part II: scheduler.Scheduler
    lecturers,        \* Scheduler.lecturers, in input order
    subjects,         \* Scheduler.subjects: subject id -> required_blocks
    rooms,            \* Scheduler.rooms: room ids in input order
    student_groups,   \* Scheduler.student_groups: group ids in input order
    semester_start,   \* Scheduler.semester_start
    semester_end,     \* Scheduler.semester_end
    preferred_days,   \* Lecturer.preferred_days of each lecturer (by list position)
    schedule,         \* Scheduler.schedule
    loop,             \* the locals of the running schedule_subjects call
    returned,         \* the lists schedule_subjects has returned, oldest first
    ctor,             \* a running Scheduler(...) construction: arguments and outcome
    top_call,         \* the last get_top_lecturers call: its count and its result
    \* Part III: data_loader._expand_availability
    raw_availability, \* the raw_availability argument (a JSON value)
    semester_weeks,   \* the semester_weeks argument
    availability,     \* the local set `availability` of the running call
    phase,            \* how far the call has got
    earlier,          \* the sets earlier calls on the same arguments returned
    \* Part VI: validate_input.validate_data
    report,           \* a validate_data call: its data and what it returned
    \* Part VII: the three-phase allocator (its Schedule is `blocks`)
    entities,         \* the allocator's lecturers, subjects, rooms, groups and weeks
    alloc             \* the position of the running create_schedule call

scheduleVars == <<blocks, ret, arg>>

schedulerVars == <<lecturers, subjects, rooms, student_groups, semester_start,
                   semester_end, preferred_days, schedule, loop, returned, ctor, top_call>>

loaderVars == <<raw_availability, semester_weeks, availability, phase, earlier>>

validateVars == <<report>>

allocVars == <<entities, alloc>>

vars == <<blocks, ret, arg, lecturers, subjects, rooms, student_groups, semester_start,
          semester_end, preferred_days, schedule, loop, returned, ctor, top_call,
          raw_availability, semester_weeks, availability, phase, earlier, report,
          entities, alloc>>

(***************************************************************************)
(* Part I.  models.py: ScheduledBlock and Schedule                         *)
(***************************************************************************)

\* Longest Schedule.blocks the model builds.
MaxBlocks == 2

\* TimeSlot enum values.
MORNING == "morning"
AFTERNOON == "afternoon"
TimeSlot == {MORNING, AFTERNOON}

\* The (week, day, timeslot) keys blocks are drawn from: a base key, one that
\* differs from it in the weekday only, one in another week and half-day.
SlotKeys == {<<1, 1, MORNING>>, <<1, 2, MORNING>>, <<2, 1, AFTERNOON>>}
LecturerIds == {"L1", "L2"}
RoomIds == {"R1", "R2"}
GroupIds == {"G1", "G2"}

\* The ScheduledBlock dataclass (the fields the conflict model reads).
ScheduledBlock ==
    { [week |-> k[1], day |-> k[2], timeslot |-> k[3],
       lecturer_id |-> l, room_id |-> r, student_group_id |-> g] :
        k \in SlotKeys, l \in LecturerIds, r \in RoomIds, g \in GroupIds }

\* Mutant of conflicts_with: the weekday comparison is forgotten.
conflicts_with_noday(self, other) ==
    IF self.week # other.week \/ self.timeslot # other.timeslot
    THEN FALSE
    ELSE \/ self.lecturer_id = other.lecturer_id
         \/ self.room_id = other.room_id
         \/ self.student_group_id = other.student_group_id

\* Mutant of conflicts_with: the student group is not compared.
conflicts_with_nogroup(self, other) ==
    IF self.week # other.week \/ self.day # other.day \/ self.timeslot # other.timeslot
    THEN FALSE
    ELSE \/ self.lecturer_id = other.lecturer_id
         \/ self.room_id = other.room_id

\* ScheduledBlock.conflicts_with
conflicts_with(self, other) ==
    IF self.week # other.week \/ self.day # other.day \/ self.timeslot # other.timeslot
    THEN FALSE
    ELSE \/ self.lecturer_id = other.lecturer_id
         \/ self.room_id = other.room_id
         \/ self.student_group_id = other.student_group_id

\* Mutant of is_slot_available: the room is not looked at.
is_slot_available_noroom(bs, week, day, timeslot, lecturer_id, room_id, student_group_id) ==
    \A i \in 1..Len(bs) :
        (bs[i].week = week /\ bs[i].day = day /\ bs[i].timeslot = timeslot)
            => ~(\/ bs[i].lecturer_id = lecturer_id
                 \/ bs[i].student_group_id = student_group_id)

\* Schedule.is_slot_available, on the block list bs
is_slot_available(bs, week, day, timeslot, lecturer_id, room_id, student_group_id) ==
    \A i \in 1..Len(bs) :
        (bs[i].week = week /\ bs[i].day = day /\ bs[i].timeslot = timeslot)
            => ~(\/ bs[i].lecturer_id = lecturer_id
                 \/ bs[i].room_id = room_id
                 \/ bs[i].student_group_id = student_group_id)

\* A fresh Schedule(): no blocks, no call made yet.
InitSchedule ==
    /\ blocks = <<>>
    /\ ret = FALSE
    /\ arg = [op |-> "none"]

\* No Scheduler object exists.
IdleScheduler ==
    /\ lecturers = <<>>
    /\ subjects = <<>>
    /\ rooms = <<>>
    /\ student_groups = <<>>
    /\ semester_start = 0
    /\ semester_end = 0
    /\ preferred_days = <<>>
    /\ schedule = <<>>
    /\ loop = [pc |-> "idle"]
    /\ returned = <<>>
    /\ ctor = [pc |-> "idle"]
    /\ top_call = [count |-> 0, result |-> <<>>]

\* No _expand_availability call is running.
IdleLoader ==
    /\ raw_availability = [t |-> "null"]
    /\ semester_weeks = 0
    /\ availability = {}
    /\ phase = "idle"
    /\ earlier = <<>>

\* No validate_data call is running.
IdleValidate == report = [pc |-> "idle"]

\* No allocator exists.
IdleAllocator ==
    /\ entities = [weeks |-> 0]
    /\ alloc = [pc |-> "idle"]

\* The scan of Schedule.add_block: TRUE when some existing block conflicts.
add_block_rejects(bs, block) ==
    \E i \in 1..Len(bs) : conflicts_with(block, bs[i])

\* Schedule.add_block(block)
add_block(block) ==
    /\ Len(blocks) < MaxBlocks \/ add_block_rejects(blocks, block)
    /\ arg' = [op |-> "add_block", block |-> block]
    /\ IF add_block_rejects(blocks, block)
       THEN /\ ret' = FALSE
            /\ UNCHANGED blocks
       ELSE /\ blocks' = Append(blocks, block)
            /\ ret' = TRUE
    /\ UNCHANGED <<schedulerVars, loaderVars, validateVars, allocVars>>

\* A call Schedule.is_slot_available(...) with the six values of probe
probe_slot(probe) ==
    /\ arg' = [op |-> "is_slot_available", block |-> probe]
    /\ ret' = is_slot_available(blocks, probe.week, probe.day, probe.timeslot,
                                probe.lecturer_id, probe.room_id, probe.student_group_id)
    /\ UNCHANGED blocks
    /\ UNCHANGED <<schedulerVars, loaderVars, validateVars, allocVars>>

NextSchedule ==
    \/ \E block \in ScheduledBlock : add_block(block)
    \/ \E probe \in ScheduledBlock : probe_slot(probe)

\* A fresh Schedule; no Scheduler of Part II exists.
Init == IdleScheduler /\ IdleLoader /\ InitSchedule /\ IdleValidate /\ IdleAllocator

Spec == Init /\ [][NextSchedule]_vars

(***************************************************************************)
(* Part I claims                                                           *)
(***************************************************************************)

\* Two blocks at the same (week, day, timeslot).
SameSlotKey(a, b) == a.week = b.week /\ a.day = b.day /\ a.timeslot = b.timeslot

\* Two blocks using the same lecturer, the same room or the same student group.
SharesResource(a, b) ==
    \/ a.lecturer_id = b.lecturer_id
    \/ a.room_id = b.room_id
    \/ a.student_group_id = b.student_group_id

\* C1: after any sequence of add_block calls from an empty Schedule, no two
\* distinct blocks of Schedule.blocks have the same (week, day, timeslot)
\* together with the same lecturer, the same room or the same student group.
C1_NoDoubleBooking ==
    \A i, j \in 1..Len(blocks) :
        (i # j /\ SameSlotKey(blocks[i], blocks[j])) => ~SharesResource(blocks[i], blocks[j])

\* C1 witness: two blocks were accepted at one and the same slot key.
C1_Witness ==
    /\ Len(blocks) = 2
    /\ SameSlotKey(blocks[1], blocks[2])

\* C2: add_block(b) returns False and leaves blocks unchanged exactly when an
\* existing block has b's slot key and shares a resource with b; otherwise it
\* returns True and blocks becomes the previous list with b appended.
C2_AddBlockContract ==
    [][arg'.op = "add_block" =>
        IF \E i \in 1..Len(blocks) :
              SameSlotKey(blocks[i], arg'.block) /\ SharesResource(blocks[i], arg'.block)
        THEN ret' = FALSE /\ blocks' = blocks
        ELSE ret' = TRUE /\ blocks' = Append(blocks, arg'.block)]_vars

\* C2 witness: a call was rejected by a schedule holding two accepted blocks,
\* for a candidate that only shares the room with one of them.
C2_Witness ==
    /\ arg.op = "add_block"
    /\ ret = FALSE
    /\ Len(blocks) = 2
    /\ \E i \in 1..2 :
          /\ SameSlotKey(blocks[i], arg.block)
          /\ blocks[i].room_id = arg.block.room_id
          /\ blocks[i].lecturer_id # arg.block.lecturer_id
          /\ blocks[i].student_group_id # arg.block.student_group_id

\* C3: is_slot_available returns True exactly when no existing block at that
\* slot key uses the lecturer, the room or the group, which is exactly when
\* add_block of a block with the same six values would be accepted; the probe
\* leaves the schedule unchanged.
C3_ProbeAgreesWithAdd ==
    [][arg'.op = "is_slot_available" =>
        /\ blocks' = blocks
        /\ ret' = (\A i \in 1..Len(blocks) :
                      SameSlotKey(blocks[i], arg'.block) => ~SharesResource(blocks[i], arg'.block))
        /\ ret' = ~add_block_rejects(blocks, arg'.block)]_vars

\* C3 witness: a probe answered False because only the room is taken.
C3_Witness ==
    /\ arg.op = "is_slot_available"
    /\ ret = FALSE
    /\ \E i \in 1..Len(blocks) :
          /\ SameSlotKey(blocks[i], arg.block)
          /\ blocks[i].room_id = arg.block.room_id
          /\ blocks[i].lecturer_id # arg.block.lecturer_id
          /\ blocks[i].student_group_id # arg.block.student_group_id

(***************************************************************************)
(* Part II.  scheduler.py: Scheduler (the date-based variant)              *)
(***************************************************************************)

\* Calls of schedule_subjects on one Scheduler object the model follows.
MaxRuns == 2
\* Largest Subject.required_blocks among the inputs.
MaxRequired == 3
\* The count schedule_subjects passes to get_top_lecturers.
TopCount == 5

\* date.weekday(): dates are day ordinals and ordinal 0 is a Monday.
weekday(day) == day % 7

\* [TimeSlot.MORNING, TimeSlot.AFTERNOON], the order both passes try slots in.
SlotOrder == <<MORNING, AFTERNOON>>

\* Input universes of the model.
SemesterChoices == {<<1, 3>>}
AvailabilityChoices ==
    { {},
      {<<1, MORNING>>},
      {<<1, MORNING>>, <<2, MORNING>>, <<3, AFTERNOON>>},
      {<<0, MORNING>>, <<2, AFTERNOON>>, <<4, MORNING>>},
      {<<1, MORNING>>, <<2, MORNING>>, <<2, AFTERNOON>>, <<3, MORNING>>} }
ImportanceChoices == {<<2, 1>>, <<1, 2>>, <<1, 1>>}
RoomChoices == {<<>>, <<1>>, <<1, 2>>, <<1, 1>>}
GroupChoices == {<<1>>, <<1, 2>>, <<1, 1>>}
SubjectChoices == [{1, 2} -> 1..MaxRequired] \cup [{1} -> 1..MaxRequired]
\* A third lecturer, with one room and one group: less important than the
\* other two, as important as one of them, or the most important.
ThirdImportanceChoices == {0, 2, 3}
ThirdAvailability == {<<1, MORNING>>, <<2, MORNING>>, <<2, AFTERNOON>>}
ThreeSubjectChoices == {[sid \in {1, 2, 3} |-> IF sid = 3 THEN 2 ELSE r] : r \in 1..MaxRequired}

\* sorted(xs, key=..., reverse=True): descending by the key order Gt, elements
\* with equal keys keeping their order in xs (Python's sort is stable).
SortedReverse(xs, Gt(_, _)) ==
    LET n == Len(xs)
        rank(i) == 1 + Cardinality({j \in 1..n :
                        Gt(xs[j], xs[i]) \/ (~Gt(xs[i], xs[j]) /\ j < i)})
    IN [p \in 1..n |-> xs[CHOOSE i \in 1..n : rank(i) = p]]

\* xs[:n]
Take(xs, n) == SubSeq(xs, 1, IF n < Len(xs) THEN n ELSE Len(xs))

\* Lecturer.is_available(day, time_slot)
is_available(lecturer, day, time_slot) == <<day, time_slot>> \in lecturer.availability

\* Mutant of is_preferred_day: every day counts as preferred.
is_preferred_day_always(pref, day) == TRUE

\* Lecturer.is_preferred_day(day), pref being the lecturer's preferred_days
is_preferred_day(pref, day) == IF pref = {} THEN TRUE ELSE weekday(day) \in pref

\* The positions of Scheduler.lecturers sorted by importance, descending.
by_importance(ls) ==
    SortedReverse([i \in 1..Len(ls) |-> i],
                  LAMBDA a, b : ls[a].importance > ls[b].importance)

\* Mutant of get_top_lecturers: the first lecturers in input order.
get_top_lecturers_unsorted(ls, count) == Take([i \in 1..Len(ls) |-> i], count)

\* Scheduler.get_top_lecturers(count), as positions in Scheduler.lecturers
get_top_lecturers(ls, count) == Take(by_importance(ls), count)

\* Mutant of get_available_days: the loop runs one day past semester_end.
get_available_days_past_end(start, end) ==
    [i \in 1..(IF end + 1 >= start THEN end + 1 - start + 1 ELSE 0) |-> start + i - 1]

\* Scheduler.get_available_days()
get_available_days(start, end) ==
    [i \in 1..(IF end >= start THEN end - start + 1 ELSE 0) |-> start + i - 1]

\* Mutant of is_room_available: every room is always free.
is_room_available_always(sched, room_id, day, time_slot) == TRUE

\* Scheduler.is_room_available(room_id, day, time_slot)
is_room_available(sched, room_id, day, time_slot) ==
    \A i \in 1..Len(sched) :
        ~(sched[i].room_id = room_id /\ sched[i].day = day /\ sched[i].time_slot = time_slot)

\* Mutant of is_student_group_available: every group is always free.
is_student_group_available_always(sched, student_group_id, day, time_slot) == TRUE

\* Scheduler.is_student_group_available(student_group_id, day, time_slot)
is_student_group_available(sched, student_group_id, day, time_slot) ==
    \A i \in 1..Len(sched) :
        ~(/\ sched[i].student_group_id = student_group_id
          /\ sched[i].day = day
          /\ sched[i].time_slot = time_slot)

\* Scheduler.find_available_room(day, time_slot): the first free room's id,
\* or None (0; room ids are positive).
None == 0
find_available_room(sched, rs, day, time_slot) ==
    LET free == {i \in 1..Len(rs) : is_room_available(sched, rs[i], day, time_slot)}
    IN IF free = {} THEN None
       ELSE rs[CHOOSE i \in free : \A j \in free : i <= j]

\* weekday_availability[wd] of assign_preferred_days_to_lecturers
weekday_availability(lecturer, wd) ==
    Cardinality({x \in lecturer.availability : weekday(x[1]) = wd})

\* Mutant of chosen_weekdays: up to three weekdays are assigned.
chosen_weekdays_three(lecturer, usage) ==
    LET available_weekdays ==
            SelectSeq(<<0, 1, 2, 3, 4, 5, 6>>,
                      LAMBDA wd : weekday_availability(lecturer, wd) > 0)
        ordered ==
            SortedReverse(available_weekdays,
                LAMBDA a, b :
                    \/ weekday_availability(lecturer, a) > weekday_availability(lecturer, b)
                    \/ /\ weekday_availability(lecturer, a) = weekday_availability(lecturer, b)
                       /\ -usage[a] > -usage[b])
    IN Take(ordered, 3)

\* The weekdays a lecturer gets in assign_preferred_days_to_lecturers, given
\* the weekday_usage so far: those with availability, sorted by
\* (availability, -usage) descending, the first one or two of them.
chosen_weekdays(lecturer, usage) ==
    LET available_weekdays ==
            SelectSeq(<<0, 1, 2, 3, 4, 5, 6>>,
                      LAMBDA wd : weekday_availability(lecturer, wd) > 0)
        ordered ==
            SortedReverse(available_weekdays,
                LAMBDA a, b :
                    \/ weekday_availability(lecturer, a) > weekday_availability(lecturer, b)
                    \/ /\ weekday_availability(lecturer, a) = weekday_availability(lecturer, b)
                       /\ -usage[a] > -usage[b])
    IN Take(ordered, 2)

\* The loop of assign_preferred_days_to_lecturers from position k of the
\* sorted lecturers on: returns the lecturers' preferred_days.
RECURSIVE assign_from(_, _, _, _, _)
assign_from(k, sorted_lecturers, ls, usage, pref) ==
    IF k > Len(sorted_lecturers) THEN pref
    ELSE LET idx == sorted_lecturers[k]
             chosen == chosen_weekdays(ls[idx], usage)
             days == {chosen[i] : i \in 1..Len(chosen)}
         IN assign_from(k + 1, sorted_lecturers, ls,
                        [wd \in 0..6 |-> usage[wd] + (IF wd \in days THEN 1 ELSE 0)],
                        [pref EXCEPT ![idx] = @ \cup days])

\* Scheduler.assign_preferred_days_to_lecturers()
assign_preferred_days_to_lecturers(ls, pref) ==
    assign_from(1, by_importance(ls), ls, [wd \in 0..6 |-> 0], pref)

\* Mutant of all_lecturers_ordered: the lecturers in input order.
all_lecturers_ordered_input(ls) == [i \in 1..Len(ls) |-> i]

\* all_lecturers_ordered of schedule_subjects: the top lecturers, then the
\* others (by id) sorted by importance, as positions in Scheduler.lecturers.
all_lecturers_ordered(ls) ==
    LET top_lecturers == get_top_lecturers(ls, TopCount)
        top_lecturer_ids == {ls[top_lecturers[i]].id : i \in 1..Len(top_lecturers)}
        remaining == SelectSeq([i \in 1..Len(ls) |-> i],
                               LAMBDA i : ls[i].id \notin top_lecturer_ids)
    IN top_lecturers \o
       SortedReverse(remaining, LAMBDA a, b : ls[a].importance > ls[b].importance)

\* The locals of schedule_subjects when no call is running.
NoCall ==
    [pc |-> "ready", order |-> <<>>, li |-> 0, pass |-> 0, di |-> 0, si |-> 0,
     gi |-> 0, blocks_scheduled |-> 0]

\* A Scheduler as Scheduler.__init__ leaves it (each lecturer has a subject
\* id of his own), before the first schedule_subjects call.
InitScheduler ==
    /\ \/ /\ \E imp \in ImportanceChoices, a1 \in AvailabilityChoices, a2 \in AvailabilityChoices :
                lecturers = << [id |-> 1, subject_id |-> 1, importance |-> imp[1], availability |-> a1],
                               [id |-> 2, subject_id |-> 2, importance |-> imp[2], availability |-> a2] >>
          /\ subjects \in SubjectChoices
          /\ rooms \in RoomChoices
          /\ student_groups \in GroupChoices
       \/ /\ \E imp \in ImportanceChoices, a1 \in AvailabilityChoices, a2 \in AvailabilityChoices,
                imp3 \in ThirdImportanceChoices :
                lecturers = << [id |-> 1, subject_id |-> 1, importance |-> imp[1], availability |-> a1],
                               [id |-> 2, subject_id |-> 2, importance |-> imp[2], availability |-> a2],
                               [id |-> 3, subject_id |-> 3, importance |-> imp3,
                                availability |-> ThirdAvailability] >>
          /\ subjects \in ThreeSubjectChoices
          /\ rooms = <<1>>
          /\ student_groups = <<1>>
    /\ \E sem \in SemesterChoices : semester_start = sem[1] /\ semester_end = sem[2]
    /\ preferred_days = [i \in 1..Len(lecturers) |-> {}]
    /\ schedule = <<>>
    /\ loop = NoCall
    /\ returned = <<>>
    /\ ctor = [pc |-> "idle"]
    /\ top_call = [count |-> 0, result |-> <<>>]

\* The lecturer, the subject's required_blocks, the day and the time slot the
\* running call is at.
cur_idx == loop.order[loop.li]
cur_lecturer == lecturers[cur_idx]
cur_required == subjects[cur_lecturer.subject_id]
semester_days == get_available_days(semester_start, semester_end)
cur_day == semester_days[loop.di]
cur_slot == SlotOrder[loop.si]

\* Mutant of schedule_subjects_enter: self.schedule is not emptied.
schedule_subjects_enter_keep ==
    /\ loop.pc = "ready"
    /\ Len(returned) < MaxRuns
    /\ preferred_days' = assign_preferred_days_to_lecturers(lecturers, preferred_days)
    /\ IF all_lecturers_ordered(lecturers) = <<>>
       THEN /\ returned' = Append(returned, schedule)
            /\ loop' = NoCall
       ELSE /\ loop' = [NoCall EXCEPT !.pc = "lecturer",
                                      !.order = all_lecturers_ordered(lecturers), !.li = 1]
            /\ UNCHANGED returned
    /\ UNCHANGED <<lecturers, subjects, rooms, student_groups, semester_start, semester_end,
                   schedule, ctor, top_call>>
    /\ UNCHANGED <<scheduleVars, loaderVars, validateVars, allocVars>>

\* schedule_subjects, from its entry to the head of the lecturer loop.
schedule_subjects_enter ==
    /\ loop.pc = "ready"
    /\ Len(returned) < MaxRuns
    /\ schedule' = <<>>
    /\ preferred_days' = assign_preferred_days_to_lecturers(lecturers, preferred_days)
    /\ IF all_lecturers_ordered(lecturers) = <<>>
       THEN /\ returned' = Append(returned, <<>>)
            /\ loop' = NoCall
       ELSE /\ loop' = [NoCall EXCEPT !.pc = "lecturer",
                                      !.order = all_lecturers_ordered(lecturers), !.li = 1]
            /\ UNCHANGED returned
    /\ UNCHANGED <<lecturers, subjects, rooms, student_groups, semester_start, semester_end,
                   ctor, top_call>>
    /\ UNCHANGED <<scheduleVars, loaderVars, validateVars, allocVars>>

\* Mutant of lecturer_loop: a lecturer whose subject is unknown ends the run.
lecturer_loop_stop ==
    /\ loop.pc = "lecturer"
    /\ IF loop.li > Len(loop.order) \/ cur_lecturer.subject_id \notin DOMAIN subjects
       THEN /\ returned' = Append(returned, schedule)
            /\ loop' = NoCall
       ELSE /\ UNCHANGED returned
            /\ loop' = [loop EXCEPT !.pc = "day", !.pass = 1, !.di = 1,
                                      !.blocks_scheduled = 0]
    /\ UNCHANGED <<lecturers, subjects, rooms, student_groups, semester_start, semester_end,
                   preferred_days, schedule, ctor, top_call>>
    /\ UNCHANGED <<scheduleVars, loaderVars, validateVars, allocVars>>

\* The head of `for lecturer in all_lecturers_ordered`: the subject lookup,
\* and the return once the list is exhausted.
lecturer_loop ==
    /\ loop.pc = "lecturer"
    /\ IF loop.li > Len(loop.order)
       THEN /\ returned' = Append(returned, schedule)
            /\ loop' = NoCall
       ELSE /\ UNCHANGED returned
            /\ IF cur_lecturer.subject_id \notin DOMAIN subjects
               THEN loop' = [loop EXCEPT !.li = @ + 1]
               ELSE loop' = [loop EXCEPT !.pc = "day", !.pass = 1, !.di = 1,
                                         !.blocks_scheduled = 0]
    /\ UNCHANGED <<lecturers, subjects, rooms, student_groups, semester_start, semester_end,
                   preferred_days, schedule, ctor, top_call>>
    /\ UNCHANGED <<scheduleVars, loaderVars, validateVars, allocVars>>

\* A call of assign_preferred_days_to_lecturers from outside
\* schedule_subjects, between two runs.
assign_preferred_days_call ==
    /\ loop.pc = "ready"
    /\ preferred_days' = assign_preferred_days_to_lecturers(lecturers, preferred_days)
    /\ UNCHANGED <<lecturers, subjects, rooms, student_groups, semester_start, semester_end,
                   schedule, loop, returned, ctor, top_call>>
    /\ UNCHANGED <<scheduleVars, loaderVars, validateVars, allocVars>>

\* Mutant of day_loop: the second pass starts counting the blocks again.
day_loop_recount ==
    /\ loop.pc = "day"
    /\ IF loop.di > Len(semester_days) \/ loop.blocks_scheduled >= cur_required
       THEN IF loop.pass = 1 /\ loop.blocks_scheduled < cur_required
            THEN loop' = [loop EXCEPT !.pass = 2, !.di = 1, !.blocks_scheduled = 0]
            ELSE loop' = [loop EXCEPT !.pc = "lecturer", !.li = @ + 1, !.pass = 0, !.di = 0,
                                      !.blocks_scheduled = 0]
       ELSE IF (loop.pass = 1) # is_preferred_day(preferred_days[cur_idx], cur_day)
            THEN loop' = [loop EXCEPT !.di = @ + 1]
            ELSE loop' = [loop EXCEPT !.pc = "slot", !.si = 1]
    /\ UNCHANGED <<lecturers, subjects, rooms, student_groups, semester_start, semester_end,
                   preferred_days, schedule, returned, ctor, top_call>>
    /\ UNCHANGED <<scheduleVars, loaderVars, validateVars, allocVars>>

\* The head of `for day in semester_days` of either pass, and what follows
\* the loop: the second pass, or the next lecturer.
day_loop ==
    /\ loop.pc = "day"
    /\ IF loop.di > Len(semester_days) \/ loop.blocks_scheduled >= cur_required
       THEN IF loop.pass = 1 /\ loop.blocks_scheduled < cur_required
            THEN loop' = [loop EXCEPT !.pass = 2, !.di = 1]
            ELSE loop' = [loop EXCEPT !.pc = "lecturer", !.li = @ + 1, !.pass = 0, !.di = 0,
                                      !.blocks_scheduled = 0]
       ELSE IF (loop.pass = 1) # is_preferred_day(preferred_days[cur_idx], cur_day)
            THEN loop' = [loop EXCEPT !.di = @ + 1]
            ELSE loop' = [loop EXCEPT !.pc = "slot", !.si = 1]
    /\ UNCHANGED <<lecturers, subjects, rooms, student_groups, semester_start, semester_end,
                   preferred_days, schedule, returned, ctor, top_call>>
    /\ UNCHANGED <<scheduleVars, loaderVars, validateVars, allocVars>>

\* The head of `for time_slot in [MORNING, AFTERNOON]` and the lecturer's
\* availability check.
slot_loop ==
    /\ loop.pc = "slot"
    /\ IF loop.si > Len(SlotOrder) \/ loop.blocks_scheduled >= cur_required
       THEN loop' = [loop EXCEPT !.pc = "day", !.di = @ + 1, !.si = 0]
       ELSE IF ~is_available(cur_lecturer, cur_day, cur_slot)
            THEN loop' = [loop EXCEPT !.si = @ + 1]
            ELSE loop' = [loop EXCEPT !.pc = "group", !.gi = 1]
    /\ UNCHANGED <<lecturers, subjects, rooms, student_groups, semester_start, semester_end,
                   preferred_days, schedule, returned, ctor, top_call>>
    /\ UNCHANGED <<scheduleVars, loaderVars, validateVars, allocVars>>

\* One iteration of `for student_group in self.student_groups`: the group and
\* room checks and the append of the ScheduledBlock.
group_loop ==
    /\ loop.pc = "group"
    /\ IF loop.gi > Len(student_groups) \/ loop.blocks_scheduled >= cur_required
       THEN /\ loop' = [loop EXCEPT !.pc = "slot", !.si = @ + 1, !.gi = 0]
            /\ UNCHANGED schedule
       ELSE LET student_group_id == student_groups[loop.gi]
                room_id == find_available_room(schedule, rooms, cur_day, cur_slot)
            IN IF \/ ~is_student_group_available(schedule, student_group_id, cur_day, cur_slot)
                  \/ room_id = None
               THEN /\ loop' = [loop EXCEPT !.gi = @ + 1]
                    /\ UNCHANGED schedule
               ELSE /\ schedule' = Append(schedule,
                            [subject_id |-> cur_lecturer.subject_id,
                             lecturer_id |-> cur_lecturer.id,
                             room_id |-> room_id,
                             student_group_id |-> student_group_id,
                             day |-> cur_day,
                             time_slot |-> cur_slot,
                             block_number |-> loop.blocks_scheduled + 1])
                    /\ loop' = [loop EXCEPT !.gi = @ + 1, !.blocks_scheduled = @ + 1]
    /\ UNCHANGED <<lecturers, subjects, rooms, student_groups, semester_start, semester_end,
                   preferred_days, returned, ctor, top_call>>
    /\ UNCHANGED <<scheduleVars, loaderVars, validateVars, allocVars>>

NextScheduler ==
    \/ schedule_subjects_enter
    \/ assign_preferred_days_call
    \/ lecturer_loop
    \/ day_loop
    \/ slot_loop
    \/ group_loop

\* A constructed Scheduler; the models.Schedule of Part I is not in use.
SchedulerInit == InitSchedule /\ IdleLoader /\ InitScheduler /\ IdleValidate /\ IdleAllocator

SchedulerSpec == SchedulerInit /\ [][NextScheduler]_vars

(***************************************************************************)
(* Part II claims                                                          *)
(***************************************************************************)

\* The pairs of distinct positions of a block list at one day and time slot.
SameTimePairs(sched) ==
    {p \in (1..Len(sched)) \X (1..Len(sched)) :
        /\ p[1] # p[2]
        /\ sched[p[1]].day = sched[p[2]].day
        /\ sched[p[1]].time_slot = sched[p[2]].time_slot}

\* C4: in the list schedule_subjects returns, no two distinct blocks have the
\* same day, the same time slot and the same lecturer.
C4_NoLecturerDoubleBooking ==
    \A k \in 1..Len(returned) : \A p \in SameTimePairs(returned[k]) :
        returned[k][p[1]].lecturer_id # returned[k][p[2]].lecturer_id

\* C5: in the list schedule_subjects returns, no two distinct blocks have the
\* same day, the same time slot and the same room.
C5_NoRoomDoubleBooking ==
    \A k \in 1..Len(returned) : \A p \in SameTimePairs(returned[k]) :
        returned[k][p[1]].room_id # returned[k][p[2]].room_id

\* C5 witness: a returned list holds blocks of two lecturers at one day and
\* time slot (so two rooms were needed at once).
C5_Witness ==
    \E k \in 1..Len(returned) : \E p \in SameTimePairs(returned[k]) :
        returned[k][p[1]].lecturer_id # returned[k][p[2]].lecturer_id

\* C6: in the list schedule_subjects returns, no two distinct blocks have the
\* same day, the same time slot and the same student group.
C6_NoGroupDoubleBooking ==
    \A k \in 1..Len(returned) : \A p \in SameTimePairs(returned[k]) :
        returned[k][p[1]].student_group_id # returned[k][p[2]].student_group_id

\* C6 witness: a returned list holds two blocks at one day and time slot
\* although a lecturer with a free room found the first group taken.
C6_Witness ==
    \E k \in 1..Len(returned) : \E p \in SameTimePairs(returned[k]) :
        /\ returned[k][p[1]].lecturer_id # returned[k][p[2]].lecturer_id
        /\ returned[k][p[1]].student_group_id = 1
        /\ returned[k][p[2]].student_group_id = 2

\* The lecturer a block names.
LecturerOf(b) == CHOOSE l \in {lecturers[i] : i \in 1..Len(lecturers)} : l.id = b.lecturer_id

\* C7: every block schedule_subjects returns lies on a date within
\* [semester_start, semester_end] and at a (day, time_slot) of its lecturer's
\* availability, whichever pass placed it.
C7_WithinSemesterAndAvailability ==
    \A k \in 1..Len(returned) : \A i \in 1..Len(returned[k]) :
        LET b == returned[k][i]
        IN /\ semester_start <= b.day /\ b.day <= semester_end
           /\ <<b.day, b.time_slot>> \in LecturerOf(b).availability

\* C7 witness: a returned list holds a block of the preferred-day pass and a
\* block of the fallback pass, of a lecturer who is also available on a date
\* outside the semester.
C7_Witness ==
    \E k \in 1..Len(returned) : \E i, j \in 1..Len(returned[k]) :
        LET a == returned[k][i]
            b == returned[k][j]
        IN /\ a.lecturer_id = b.lecturer_id
           /\ weekday(a.day) \in preferred_days[a.lecturer_id]
           /\ weekday(b.day) \notin preferred_days[b.lecturer_id]

\* C15: runs of schedule_subjects on the same Scheduler object, its inputs
\* unchanged, return identical block sequences (order, assignments and block
\* numbers); nothing the first run placed survives into or alters a later one.
C15_RunsAreIdentical ==
    \A k \in 1..Len(returned) : returned[k] = returned[1]

\* C15's case: a second run has returned, and the runs placed several blocks.
C15_Witness ==
    /\ Len(returned) >= 2
    /\ Len(returned[1]) >= 2
    /\ \E i \in 1..Len(lecturers) : preferred_days[i] # {}

\* The number of blocks of a block list that lecturer number i teaches.
BlocksOf(sched, i) ==
    Cardinality({p \in 1..Len(sched) : sched[p].lecturer_id = lecturers[i].id})

\* Whether nothing more can be placed at (day, time_slot) for a group: the
\* group has a block there, or every room (if there is any) is taken.
Saturated(sched, group, day, time_slot) ==
    \/ \E p \in 1..Len(sched) :
           /\ sched[p].student_group_id = group
           /\ sched[p].day = day /\ sched[p].time_slot = time_slot
    \/ \A r \in 1..Len(rooms) :
           \E p \in 1..Len(sched) :
               /\ sched[p].room_id = rooms[r]
               /\ sched[p].day = day /\ sched[p].time_slot = time_slot

\* C16: when a subject's required blocks cannot all be placed, the run still
\* returns: a lecturer whose subject is unknown gets no block, every other
\* lecturer gets at most the required number, and one who got fewer has no
\* available half-day of the semester left where a group and a room are free;
\* so the lecturers after a shortfall are still scheduled.
C16_ShortfallReturnsWhatWasPlaced ==
    \A k \in 1..Len(returned) : \A i \in 1..Len(lecturers) :
        IF lecturers[i].subject_id \notin DOMAIN subjects
        THEN BlocksOf(returned[k], i) = 0
        ELSE /\ BlocksOf(returned[k], i) <= subjects[lecturers[i].subject_id]
             /\ BlocksOf(returned[k], i) < subjects[lecturers[i].subject_id] =>
                    \A slot \in lecturers[i].availability :
                        (semester_start <= slot[1] /\ slot[1] <= semester_end) =>
                            \A g \in 1..Len(student_groups) :
                                Saturated(returned[k], student_groups[g], slot[1], slot[2])

\* C16's case: a run returned with a lecturer short of the required blocks
\* and a less important lecturer, scheduled after him, with blocks.
C16_Witness ==
    \E k \in 1..Len(returned) : \E i \in 1..Len(lecturers), j \in 1..Len(lecturers) :
        /\ lecturers[i].importance > lecturers[j].importance
        /\ lecturers[i].subject_id \in DOMAIN subjects
        /\ BlocksOf(returned[k], i) < subjects[lecturers[i].subject_id]
        /\ BlocksOf(returned[k], j) > 0

\* The weekdays a lecturer has some availability on.
AvailableWeekdays(lecturer) == {weekday(x[1]) : x \in lecturer.availability}

\* assign_preferred_days_to_lecturers has run at least once on this object.
AssignHasRun ==
    \/ loop.pc # "ready"
    \/ returned # <<>>
    \/ \E i \in 1..Len(lecturers) : preferred_days[i] # {}
    \/ \A i \in 1..Len(lecturers) : lecturers[i].availability = {}

\* C21: once assign_preferred_days_to_lecturers has run, however often, every
\* lecturer with an available slot has one or two preferred weekdays, each a
\* weekday of some available slot of his, and a lecturer without availability
\* has none.
C21_OneOrTwoPreferredDays ==
    AssignHasRun =>
        \A i \in 1..Len(lecturers) :
            /\ preferred_days[i] \subseteq AvailableWeekdays(lecturers[i])
            /\ lecturers[i].availability # {} =>
                   Cardinality(preferred_days[i]) \in {1, 2}
            /\ lecturers[i].availability = {} => preferred_days[i] = {}

\* C21's case: after two runs of schedule_subjects, a lecturer available on
\* three weekdays has two preferred weekdays and a lecturer without
\* availability has none.
C21_Witness ==
    /\ Len(returned) = 2
    /\ \E i \in 1..Len(lecturers) :
           /\ Cardinality(AvailableWeekdays(lecturers[i])) >= 3
           /\ Cardinality(preferred_days[i]) = 2
    /\ \E j \in 1..Len(lecturers) :
           lecturers[j].availability = {} /\ preferred_days[j] = {}

\* The block at position p of a list is on a preferred weekday of its
\* lecturer (lecturer ids are positions in Scheduler.lecturers).
OnPreferredDay(sched, p) == weekday(sched[p].day) \in preferred_days[sched[p].lecturer_id]

\* C22: a block on a non-preferred weekday is appended only in the second
\* pass, which starts after the pass over the preferred days ended short of
\* required_blocks; and in every returned list no block of a lecturer on a
\* non-preferred weekday precedes a block of his on a preferred weekday.
C22_PreferredDaysFirst ==
    [][ /\ (Len(schedule') = Len(schedule) + 1 /\ ~OnPreferredDay(schedule', Len(schedule'))) =>
              /\ loop.pass = 2
              /\ loop.blocks_scheduled < cur_required
        /\ \A k \in 1..Len(returned') : \A p \in 1..Len(returned'[k]), q \in 1..Len(returned'[k]) :
              ( /\ p < q
                /\ returned'[k][p].lecturer_id = returned'[k][q].lecturer_id
                /\ OnPreferredDay(returned'[k], q) ) => OnPreferredDay(returned'[k], p) ]_vars

\* C22's case: a returned list in which a lecturer has a block on a preferred
\* weekday followed by a block on a non-preferred weekday.
C22_Witness ==
    \E k \in 1..Len(returned) : \E p \in 1..Len(returned[k]), q \in 1..Len(returned[k]) :
        /\ p < q
        /\ returned[k][p].lecturer_id = returned[k][q].lecturer_id
        /\ OnPreferredDay(returned[k], p)
        /\ ~OnPreferredDay(returned[k], q)

\* The positions of a subject's blocks in a block list.
SubjectPositions(sched, sid) == {p \in 1..Len(sched) : sched[p].subject_id = sid}

\* A subject's blocks in a list are at most required_blocks and numbered
\* 1, 2, ... in the order of the list.
NumberedInOrder(sched) ==
    \A sid \in DOMAIN subjects :
        /\ Cardinality(SubjectPositions(sched, sid)) <= subjects[sid]
        /\ \A p \in SubjectPositions(sched, sid) :
               sched[p].block_number =
                   Cardinality({q \in SubjectPositions(sched, sid) : q <= p})

\* C30: at every point of schedule_subjects and in every list it returns,
\* a subject has at most required_blocks blocks, numbered 1, 2, ..., k in
\* placement order, the count carrying over into the fallback pass.
C30_BlockNumbersCountUp ==
    /\ NumberedInOrder(schedule)
    /\ \A k \in 1..Len(returned) : NumberedInOrder(returned[k])

\* C30's case: the fallback pass has just placed a block of a subject that
\* already has blocks from the preferred-day pass, for a second student group.
C30_Witness ==
    /\ loop.pc = "group"
    /\ loop.pass = 2
    /\ loop.blocks_scheduled >= 2
    /\ schedule # <<>>
    /\ ~OnPreferredDay(schedule, Len(schedule))
    /\ schedule[Len(schedule)].block_number = loop.blocks_scheduled
    /\ \E p \in 1..Len(schedule) :
           /\ schedule[p].subject_id = schedule[Len(schedule)].subject_id
           /\ OnPreferredDay(schedule, p)
           /\ schedule[p].student_group_id # schedule[Len(schedule)].student_group_id

(***************************************************************************)
(* Part III.  data_loader.py: _parse_weeks_expr and _expand_availability   *)
(*                                                                         *)
(* A Python str is a sequence of one-character strings.  A JSON value is a *)
(* record tagged by its type t: int, str, null, list, dict, or missing for *)
(* a key a dict does not have.                                             *)
(***************************************************************************)

JInt(n) == [t |-> "int", v |-> n]
JStr(chars) == [t |-> "str", v |-> chars]
JList(elems) == [t |-> "list", v |-> elems]
JNull == [t |-> "null"]
JMissing == [t |-> "missing"]

\* The literal 'morning' both branches compare slot names with.
morning == <<"m", "o", "r", "n", "i", "n", "g">>

Digits == <<"0", "1", "2", "3", "4", "5", "6", "7", "8", "9">>
IsDigit(c) == \E d \in 1..Len(Digits) : Digits[d] = c
DigitValue(c) == (CHOOSE d \in 1..Len(Digits) : Digits[d] = c) - 1

\* The value of a non-empty string of decimal digits.
RECURSIVE DecimalValue(_)
DecimalValue(chars) ==
    IF chars = <<>> THEN 0
    ELSE 10 * DecimalValue(SubSeq(chars, 1, Len(chars) - 1)) + DigitValue(chars[Len(chars)])

\* str(n) of an int n >= 0
RECURSIVE py_str(_)
py_str(n) ==
    IF n < 10 THEN <<Digits[n + 1]>>
    ELSE py_str(n \div 10) \o <<Digits[(n % 10) + 1]>>

\* str.strip(): without the leading and trailing blanks
strip(chars) ==
    LET keep == {i \in 1..Len(chars) : chars[i] # " "}
    IN IF keep = {} THEN <<>>
       ELSE SubSeq(chars, CHOOSE i \in keep : \A j \in keep : i <= j,
                          CHOOSE i \in keep : \A j \in keep : j <= i)

\* The position of the first sep in chars (only used when there is one).
FirstIndex(chars, sep) ==
    CHOOSE i \in 1..Len(chars) : chars[i] = sep /\ \A j \in 1..(i - 1) : chars[j] # sep

\* str.split(sep)
RECURSIVE split(_, _)
split(chars, sep) ==
    IF \A i \in 1..Len(chars) : chars[i] # sep THEN <<chars>>
    ELSE <<SubSeq(chars, 1, FirstIndex(chars, sep) - 1)>>
         \o split(SubSeq(chars, FirstIndex(chars, sep) + 1, Len(chars)), sep)

\* int(chars): ok and the value, or ok = FALSE where int() raises ValueError.
\* Blanks around the literal and one leading sign are accepted.
py_int(chars) ==
    LET t == strip(chars)
        signed == t # <<>> /\ t[1] \in {"-", "+"}
        body == IF signed THEN Tail(t) ELSE t
    IN IF body = <<>> \/ \E i \in 1..Len(body) : ~IsDigit(body[i])
       THEN [ok |-> FALSE, value |-> 0]
       ELSE [ok |-> TRUE,
             value |-> IF signed /\ t[1] = "-" THEN 0 - DecimalValue(body)
                       ELSE DecimalValue(body)]

\* Mutant of parse_weeks_part: an inverted range is not swapped.
parse_weeks_part_noswap(part, max_week) ==
    IF \E i \in 1..Len(part) : part[i] = "-"
    THEN LET k == FirstIndex(part, "-")
             a == py_int(SubSeq(part, 1, k - 1))
             b == py_int(SubSeq(part, k + 1, Len(part)))
         IN IF ~a.ok \/ ~b.ok THEN {}
            ELSE {w \in a.value..b.value : 1 <= w /\ w <= max_week}
    ELSE LET w == py_int(part)
         IN IF w.ok /\ 1 <= w.value /\ w.value <= max_week THEN {w.value} ELSE {}

\* The body of the loop `for part in parts` of _parse_weeks_expr: the weeks
\* one part adds.
parse_weeks_part(part, max_week) ==
    IF \E i \in 1..Len(part) : part[i] = "-"
    THEN LET k == FirstIndex(part, "-")
             a == py_int(SubSeq(part, 1, k - 1))
             b == py_int(SubSeq(part, k + 1, Len(part)))
         IN IF ~a.ok \/ ~b.ok THEN {}
            ELSE LET start == IF a.value > b.value THEN b.value ELSE a.value
                     end == IF a.value > b.value THEN a.value ELSE b.value
                 IN {w \in start..end : 1 <= w /\ w <= max_week}
    ELSE LET w == py_int(part)
         IN IF w.ok /\ 1 <= w.value /\ w.value <= max_week THEN {w.value} ELSE {}

\* _parse_weeks_expr(expr, max_week), expr a str
parse_weeks_expr(expr, max_week) ==
    IF expr = <<>> THEN {}
    ELSE LET pieces == split(expr, ",")
             parts == SelectSeq([i \in 1..Len(pieces) |-> strip(pieces[i])],
                                LAMBDA part : part # <<>>)
         IN UNION {parse_weeks_part(parts[i], max_week) : i \in 1..Len(parts)}

\* The dict DAY_NAME_TO_INT, as its (key, value) pairs.
DAY_NAME_TO_INT ==
    { <<<<"M", "o", "n">>, 1>>,
      <<<<"M", "o", "n", "d", "a", "y">>, 1>>,
      <<<<"T", "u", "e">>, 2>>,
      <<<<"T", "u", "e", "s", "d", "a", "y">>, 2>>,
      <<<<"W", "e", "d">>, 3>>,
      <<<<"W", "e", "d", "n", "e", "s", "d", "a", "y">>, 3>>,
      <<<<"T", "h", "u">>, 4>>,
      <<<<"T", "h", "u", "r", "s", "d", "a", "y">>, 4>>,
      <<<<"F", "r", "i">>, 5>>,
      <<<<"F", "r", "i", "d", "a", "y">>, 5>> }

\* DAY_NAME_TO_INT.get(name, None) for a str name
day_name_get(name) ==
    IF \E e \in DAY_NAME_TO_INT : e[1] = name
    THEN (CHOOSE e \in DAY_NAME_TO_INT : e[1] = name)[2]
    ELSE None

\* DAY_NAME_TO_INT.get(value, None) for a JSON value (None for a non-str)
day_value_get(value) == IF value.t = "str" THEN day_name_get(value.v) ELSE None

\* TimeSlot.MORNING if slot == 'morning' else TimeSlot.AFTERNOON
timeslot_of(slot) == IF slot.t = "str" /\ slot.v = morning THEN MORNING ELSE AFTERNOON

\* isinstance(value, int)
is_int(value) == value.t = "int"

\* What `for x in (value or [])` iterates over where it does not raise: the
\* elements of a list, the characters of a string, nothing for a falsy value
\* (None, 0, a missing field).
or_empty(value) ==
    IF value.t = "list" THEN value.v
    ELSE IF value.t = "str" THEN [i \in 1..Len(value.v) |-> JStr(<<value.v[i]>>)]
    ELSE <<>>

\* Whether `for x in (value or [])` raises TypeError: a non-zero int is truthy
\* and not iterable.
iter_raises(value) == value.t = "int" /\ value.v # 0

\* Whether value is truthy and without the method (.split, .items) the code
\* calls on it, so that the call raises AttributeError: a non-zero int, or a
\* non-empty value of a type in types.
lacks_method(value, types) ==
    \/ value.t = "int" /\ value.v # 0
    \/ value.t \in types /\ Len(value.v) > 0

\* Whether DAY_NAME_TO_INT.get(value, None) raises TypeError: unhashable key.
unhashable(value) == value.t \in {"list", "dict"}

\* The old format: what the loop body adds for one item of the list (nothing
\* for an item it skips).
list_item_slots(item, weeks) ==
    IF item.t # "list" THEN {}
    ELSE IF Len(item.v) # 3 THEN {}
    ELSE LET week == item.v[1]
             day == item.v[2]
             slot == item.v[3]
         IN IF ~is_int(week) \/ ~is_int(day) THEN {}
            ELSE IF week.v < 1 \/ week.v > weeks \/ day.v < 1 \/ day.v > 5 THEN {}
            ELSE {<<week.v, day.v, timeslot_of(slot)>>}

\* The old format: the loop over the list.
RECURSIVE expand_list(_, _, _, _)
expand_list(k, items, weeks, avail) ==
    IF k > Len(items) THEN avail
    ELSE expand_list(k + 1, items, weeks, avail \cup list_item_slots(items[k], weeks))

\* weeks_set of one pattern: pattern.get('weeks', f'1-{semester_weeks}') parsed.
pattern_weeks(pattern, weeks) ==
    CASE pattern.weeks.t = "missing" -> parse_weeks_expr(<<"1", "-">> \o py_str(weeks), weeks)
      [] pattern.weeks.t = "str" -> parse_weeks_expr(pattern.weeks.v, weeks)
      [] pattern.weeks.t = "null" -> {}
      [] OTHER -> {}

\* The slots one entry (day_name, slots) of a pattern's days map adds.
pattern_day_slots(day_name, slots, weeks_set) ==
    LET day_int == day_name_get(strip(day_name))
    IN IF day_int = None THEN {}
       ELSE IF slots.t # "list" THEN {}
       ELSE {<<w, day_int, timeslot_of(slots.v[i])>> : w \in weeks_set, i \in 1..Len(slots.v)}

\* The slots one pattern adds.
pattern_slots(pattern, weeks) ==
    IF pattern.t # "dict" THEN {}
    ELSE LET days_map == IF pattern.days.t = "dict" THEN pattern.days.items ELSE <<>>
         IN UNION {pattern_day_slots(days_map[i][1], days_map[i][2],
                                     pattern_weeks(pattern, weeks)) : i \in 1..Len(days_map)}

\* Mutant of apply_patterns: each pattern replaces what the earlier ones gave.
RECURSIVE apply_patterns_override(_, _, _, _)
apply_patterns_override(k, patterns, weeks, avail) ==
    IF k > Len(patterns) THEN avail
    ELSE apply_patterns_override(k + 1, patterns, weeks, pattern_slots(patterns[k], weeks))

\* The loop `for pattern in patterns`.
RECURSIVE apply_patterns(_, _, _, _)
apply_patterns(k, patterns, weeks, avail) ==
    IF k > Len(patterns) THEN avail
    ELSE apply_patterns(k + 1, patterns, weeks, avail \cup pattern_slots(patterns[k], weeks))

\* The body of the loop `for exc in exceptions`: removals, then additions.
apply_exception(avail, exc, weeks) ==
    IF exc.t # "dict" THEN avail
    ELSE LET week == exc.week
             day_int == day_value_get(exc.day)
             remove == or_empty(exc.remove)
             add == or_empty(exc.add)
         IN IF ~is_int(week) \/ day_int = None THEN avail
            ELSE (avail \ {<<week.v, day_int, timeslot_of(remove[i])>> : i \in 1..Len(remove)})
                 \cup (IF 1 <= week.v /\ week.v <= weeks
                       THEN {<<week.v, day_int, timeslot_of(add[i])>> : i \in 1..Len(add)}
                       ELSE {})

\* The loop `for exc in exceptions`.
RECURSIVE apply_exceptions(_, _, _, _)
apply_exceptions(k, exceptions, weeks, avail) ==
    IF k > Len(exceptions) THEN avail
    ELSE apply_exceptions(k + 1, exceptions, weeks, apply_exception(avail, exceptions[k], weeks))

\* Mutant of blackout_slots: an inverted week range is not swapped.
blackout_slots_noswap(blk, weeks) ==
    IF blk.t # "dict" THEN {}
    ELSE IF ~(is_int(blk.from_week) /\ is_int(blk.to_week)) THEN {}
    ELSE LET days_list == or_empty(blk.days)
             found == {day_value_get(days_list[i]) : i \in 1..Len(days_list)} \ {None}
             day_ints == IF found = {} THEN {1, 2, 3, 4, 5} ELSE found
         IN {<<w, d, ts>> : w \in {x \in blk.from_week.v..blk.to_week.v : 1 <= x /\ x <= weeks},
                            d \in day_ints, ts \in TimeSlot}

\* The slots the body of the loop `for blk in blackouts` discards.
blackout_slots(blk, weeks) ==
    IF blk.t # "dict" THEN {}
    ELSE IF ~(is_int(blk.from_week) /\ is_int(blk.to_week)) THEN {}
    ELSE LET from_w == IF blk.from_week.v > blk.to_week.v THEN blk.to_week.v ELSE blk.from_week.v
             to_w == IF blk.from_week.v > blk.to_week.v THEN blk.from_week.v ELSE blk.to_week.v
             days_list == or_empty(blk.days)
             found == {day_value_get(days_list[i]) : i \in 1..Len(days_list)} \ {None}
             day_ints == IF found = {} THEN {1, 2, 3, 4, 5} ELSE found
         IN {<<w, d, ts>> : w \in {x \in from_w..to_w : 1 <= x /\ x <= weeks},
                            d \in day_ints, ts \in TimeSlot}

\* The loop `for blk in blackouts`.
RECURSIVE apply_blackouts(_, _, _, _)
apply_blackouts(k, blackouts, weeks, avail) ==
    IF k > Len(blackouts) THEN avail
    ELSE apply_blackouts(k + 1, blackouts, weeks, avail \ blackout_slots(blackouts[k], weeks))

\* Whether the body of `for pattern in patterns` raises: a truthy weeks value
\* that is no string (expr.split), or a truthy days value that is no dict
\* (days_map.items).
pattern_raises(pattern) ==
    /\ pattern.t = "dict"
    /\ \/ lacks_method(pattern.weeks, {"list"})
       \/ lacks_method(pattern.days, {"list", "str"})

\* Whether the loop over the patterns raises.
patterns_raise(value) ==
    \/ iter_raises(value)
    \/ \E k \in 1..Len(or_empty(value)) : pattern_raises(or_empty(value)[k])

\* Whether the body of `for exc in exceptions` raises: an unhashable day, or,
\* once week and day are accepted, a remove or add that cannot be iterated.
exception_raises(exc) ==
    /\ exc.t = "dict"
    /\ \/ unhashable(exc.day)
       \/ /\ is_int(exc.week)
          /\ day_value_get(exc.day) # None
          /\ (iter_raises(exc.remove) \/ iter_raises(exc.add))

\* Whether the loop over the exceptions raises.
exceptions_raise(value) ==
    \/ iter_raises(value)
    \/ \E k \in 1..Len(or_empty(value)) : exception_raises(or_empty(value)[k])

\* Whether the body of `for blk in blackouts` raises: with both week bounds
\* ints, a days value that cannot be iterated or an unhashable entry of it.
blackout_raises(blk) ==
    /\ blk.t = "dict"
    /\ is_int(blk.from_week) /\ is_int(blk.to_week)
    /\ \/ iter_raises(blk.days)
       \/ \E i \in 1..Len(or_empty(blk.days)) : unhashable(or_empty(blk.days)[i])

\* Whether the loop over the blackouts raises.
blackouts_raise(value) ==
    \/ iter_raises(value)
    \/ \E k \in 1..Len(or_empty(value)) : blackout_raises(or_empty(value)[k])

(***************************************************************************)
(* The inputs of _expand_availability the model draws from                 *)
(***************************************************************************)

\* The semester_weeks of the calls.
SemesterWeeks == 2
\* Longest explicit list.
MaxItems == 2
\* Calls of _expand_availability on the same arguments.
MaxCalls == 2

\* Slot names: the two valid ones and one that is neither.
SlotM == JStr(morning)
SlotA == JStr(<<"a", "f", "t", "e", "r", "n", "o", "o", "n">>)
SlotE == JStr(<<"e", "v", "e", "n", "i", "n", "g">>)

\* Weekday names: table keys, a lower-case one, a padded one, a weekend day.
NameMon == <<"M", "o", "n">>
NameMonday == <<"M", "o", "n", "d", "a", "y">>
NameTue == <<"T", "u", "e">>
NameWed == <<"W", "e", "d">>
NameThu == <<"T", "h", "u">>
NameFri == <<"F", "r", "i">>
NameLowerMon == <<"m", "o", "n">>
NamePaddedFri == <<" ", "F", "r", "i", " ">>
NameSat == <<"S", "a", "t">>

\* Explicit-list items: triples around the valid ranges, and malformed ones.
ItemChoices ==
    { JList(<<JInt(w), JInt(d), SlotM>>) : w \in 0..(SemesterWeeks + 1), d \in {0, 1, 5, 6} }
    \cup { JList(<<JInt(1), JInt(1), sl>>) : sl \in {SlotA, SlotE} }
    \cup { JList(<<JInt(1), JInt(1)>>),
           JList(<<JStr(<<"1">>), JInt(1), SlotM>>),
           JList(<<JInt(1), JNull, SlotM>>),
           JInt(1) }

ListChoices == UNION {[1..n -> ItemChoices] : n \in 0..MaxItems}

\* Week expressions: one or two comma-separated parts, a part being a number,
\* a range of two numbers, or something that is neither.
WeekNumbers == 0..(SemesterWeeks + 1) \cup {12}
WeekParts ==
    { py_str(n) : n \in WeekNumbers }
    \cup { py_str(a) \o <<"-">> \o py_str(b) : a \in WeekNumbers, b \in WeekNumbers }
    \cup { <<>>, <<"x">>, <<" ", "2", " ">>, <<"1", "-", "x">>, <<"1", " ", "-", " ", "2">> }
WeekExprs == WeekParts \cup { a \o <<",">> \o b : a \in WeekParts, b \in WeekParts }

\* days maps of patterns, as their (key, value) items in order.
DaysMaps ==
    { [t |-> "dict", items |-> << <<NameMon, JList(<<SlotM, SlotA>>)>>, <<NameWed, JList(<<SlotM>>)>> >>],
      [t |-> "dict", items |-> << <<NameMonday, JList(<<SlotE>>)>> >>],
      [t |-> "dict", items |-> << <<NameLowerMon, JList(<<SlotM>>)>>, <<NameTue, JList(<<SlotA>>)>> >>],
      [t |-> "dict", items |-> << <<NamePaddedFri, JList(<<SlotM>>)>> >>],
      [t |-> "dict", items |-> << <<NameSat, JList(<<SlotM>>)>>, <<NameTue, JList(<<>>)>> >>],
      [t |-> "dict", items |-> << <<NameThu, SlotM>>, <<NameFri, JList(<<SlotA, SlotM>>)>> >>],
      JMissing }

Pattern(weeks, days) == [t |-> "dict", weeks |-> weeks, days |-> days]

\* One pattern with any week expression; or two patterns with simple ones.
RichPatterns ==
    { Pattern(JStr(e), d) : e \in WeekExprs, d \in DaysMaps }
    \cup { Pattern(JMissing, d) : d \in DaysMaps }
    \cup { Pattern(JNull, d) : d \in DaysMaps }
    \cup { JInt(1) }
SimplePatterns ==
    { Pattern(JStr(e), d) : e \in {<<"1">>, <<"2", "-", "1">>, <<"3">>},
                            d \in {m \in DaysMaps : m # JMissing /\ Len(m.items) = 2} }
PatternLists ==
    { <<>> } \cup { <<p>> : p \in RichPatterns }
    \cup { <<p, q>> : p \in SimplePatterns, q \in SimplePatterns }

\* The pattern the exception and blackout inputs start from: every week,
\* Monday both half-days and Wednesday morning.
BasePattern ==
    Pattern(JMissing,
            [t |-> "dict", items |-> << <<NameMon, JList(<<SlotM, SlotA>>)>>, <<NameWed, JList(<<SlotM>>)>> >>])

Exception(week, day, remove, add) ==
    [t |-> "dict", week |-> week, day |-> day, remove |-> remove, add |-> add]

ExceptionChoices ==
    { Exception(w, JStr(d), r, a) :
        w \in {JInt(0), JInt(1), JInt(SemesterWeeks + 1), JNull},
        d \in {NameMon, NameFri, NameLowerMon},
        r \in {JMissing, JList(<<SlotM>>)},
        a \in {JMissing, JList(<<SlotM>>), JList(<<SlotE>>)} }
    \cup { Exception(JInt(1), JNull, JList(<<SlotM>>), JMissing), JNull }
ExceptionLists ==
    { <<>> } \cup { <<e>> : e \in ExceptionChoices }
    \cup { <<e, f>> : e \in ExceptionChoices, f \in ExceptionChoices }

Blackout(from_week, to_week, days) ==
    [t |-> "dict", from_week |-> from_week, to_week |-> to_week, days |-> days]

BlackoutDays ==
    { JMissing, JList(<<>>), JList(<<JStr(NameMon)>>), JList(<<JStr(NameMon), JStr(NameFri)>>),
      JList(<<JStr(NameLowerMon)>>), JList(<<JStr(NameLowerMon), JStr(NameWed)>>),
      JList(<<JStr(NameSat)>>) }
BlackoutChoices ==
    { Blackout(JInt(f), JInt(u), d) :
        f \in 0..(SemesterWeeks + 1), u \in 0..(SemesterWeeks + 1), d \in BlackoutDays }
    \cup { Blackout(JNull, JInt(1), JMissing), JNull }
SimpleBlackouts ==
    { Blackout(JInt(f), JInt(f), d) :
        f \in 1..SemesterWeeks, d \in {JList(<<JStr(NameMon)>>), JList(<<JStr(NameWed)>>)} }
BlackoutLists ==
    { <<b>> : b \in BlackoutChoices }
    \cup { <<b, c>> : b \in SimpleBlackouts, c \in SimpleBlackouts }

\* The exceptions the blackout inputs come with: none, an add of a slot the
\* pattern lacks, a remove of one it has.
BlackoutExceptions ==
    { <<>>,
      <<Exception(JInt(1), JStr(NameFri), JMissing, JList(<<SlotA>>))>>,
      <<Exception(JInt(SemesterWeeks), JStr(NameMon), JList(<<SlotM>>), JMissing)>> }

Raw(patterns, exceptions, blackouts) ==
    [t |-> "dict", patterns |-> patterns, exceptions |-> exceptions, blackouts |-> blackouts]

\* Pattern objects with a field of the wrong type, next to the base pattern.
MalformedChoices ==
    { Raw(JList(<<Pattern(JInt(w), BasePattern.days)>>), JList(<<>>), JList(<<>>)) : w \in {0, 1} }
    \cup { Raw(JList(<<BasePattern, Pattern(JStr(<<"1">>), d)>>), JList(<<>>), JList(<<>>)) :
               d \in {JList(<<JStr(NameMon)>>), JList(<<>>), JStr(NameFri), JNull} }
    \cup { Raw(JInt(1), JList(<<>>), JList(<<>>)) }
    \cup { Raw(JList(<<BasePattern>>), JList(<<e, Exception(JInt(1), JStr(NameFri), JMissing, JList(<<SlotM>>))>>), JMissing) :
               e \in { Exception(JInt(1), JList(<<JStr(NameMon)>>), JMissing, JList(<<SlotM>>)),
                        Exception(JNull, JList(<<JStr(NameMon)>>), JMissing, JMissing),
                        Exception(JInt(1), JInt(1), JMissing, JList(<<SlotM>>)),
                        Exception(JInt(1), JStr(NameMon), JInt(1), JMissing),
                        Exception(JNull, JStr(NameMon), JInt(1), JMissing),
                        Exception(JInt(1), JStr(NameFri), JMissing, JInt(1)),
                        Exception(JInt(1), JStr(NameFri), JMissing, SlotM),
                        Exception(JInt(1), JStr(NameMon), SlotM, JMissing) } }
    \cup { Raw(JList(<<BasePattern>>), JInt(1), JMissing) }
    \cup { Raw(JList(<<BasePattern>>), JList(<<>>), JList(<<b, Blackout(JInt(1), JInt(1), JList(<<JStr(NameWed)>>))>>)) :
               b \in { Blackout(JInt(1), JInt(1), JInt(3)),
                        Blackout(JNull, JInt(1), JInt(3)),
                        Blackout(JInt(1), JInt(1), JList(<<JList(<<JStr(NameMon)>>)>>)),
                        Blackout(JInt(1), JInt(1), JList(<<JInt(1)>>)),
                        Blackout(JInt(SemesterWeeks), JInt(SemesterWeeks), JStr(NameMon)) } }
    \cup { Raw(JList(<<BasePattern>>), JList(<<>>), JInt(7)) }

\* The raw availability values: explicit lists; pattern objects with only
\* patterns, with exceptions, and with blackouts; values of neither shape.
RawChoices ==
    { JList(items) : items \in ListChoices }
    \cup { Raw(JList(ps), JList(<<>>), JList(<<>>)) : ps \in PatternLists }
    \cup { Raw(JList(<<BasePattern>>), JList(es), JMissing) : es \in ExceptionLists }
    \cup { Raw(JList(<<BasePattern>>), JList(es), JList(bs)) :
             es \in BlackoutExceptions, bs \in BlackoutLists }
    \cup MalformedChoices
    \cup { Raw(JMissing, JMissing, JMissing), Raw(JNull, JList(<<>>), JList(<<JNull>>)),
           JNull, JInt(1), JStr(morning) }

(***************************************************************************)
(* _expand_availability as a state machine: one step per loop              *)
(***************************************************************************)

\* The call _expand_availability(raw_availability, semester_weeks) begins.
InitLoader ==
    /\ raw_availability \in RawChoices
    /\ semester_weeks = SemesterWeeks
    /\ availability = {}
    /\ phase = "called"
    /\ earlier = <<>>

\* Old format: the loop over the list and the return.
expand_old_format ==
    /\ phase = "called"
    /\ raw_availability.t = "list"
    /\ availability' = expand_list(1, raw_availability.v, semester_weeks, availability)
    /\ phase' = "returned"
    /\ UNCHANGED <<raw_availability, semester_weeks, earlier>>
    /\ UNCHANGED <<scheduleVars, schedulerVars, validateVars, allocVars>>

\* Neither a list nor a dict: the empty set is returned.
expand_unknown_format ==
    /\ phase = "called"
    /\ raw_availability.t \notin {"list", "dict"}
    /\ phase' = "returned"
    /\ UNCHANGED <<raw_availability, semester_weeks, availability, earlier>>
    /\ UNCHANGED <<scheduleVars, schedulerVars, validateVars, allocVars>>

\* New format: the loop over raw_availability.get('patterns', []) or []; an
\* exception raised in it ends the call.
expand_patterns ==
    /\ phase = "called"
    /\ raw_availability.t = "dict"
    /\ IF patterns_raise(raw_availability.patterns)
       THEN phase' = "raised" /\ UNCHANGED availability
       ELSE /\ availability' = apply_patterns(1, or_empty(raw_availability.patterns),
                                              semester_weeks, availability)
            /\ phase' = "patterns"
    /\ UNCHANGED <<raw_availability, semester_weeks, earlier>>
    /\ UNCHANGED <<scheduleVars, schedulerVars, validateVars, allocVars>>

\* Mutant of expand_exceptions: the exceptions are consumed from the caller's
\* object as they are applied.
expand_exceptions_consuming ==
    /\ phase = "patterns"
    /\ IF exceptions_raise(raw_availability.exceptions)
       THEN phase' = "raised" /\ UNCHANGED <<availability, raw_availability>>
       ELSE /\ availability' = apply_exceptions(1, or_empty(raw_availability.exceptions),
                                                semester_weeks, availability)
            /\ raw_availability' = [raw_availability EXCEPT !.exceptions = JList(<<>>)]
            /\ phase' = "exceptions"
    /\ UNCHANGED <<semester_weeks, earlier>>
    /\ UNCHANGED <<scheduleVars, schedulerVars, validateVars, allocVars>>

\* New format: the loop over the exceptions.
expand_exceptions ==
    /\ phase = "patterns"
    /\ IF exceptions_raise(raw_availability.exceptions)
       THEN phase' = "raised" /\ UNCHANGED availability
       ELSE /\ availability' = apply_exceptions(1, or_empty(raw_availability.exceptions),
                                                semester_weeks, availability)
            /\ phase' = "exceptions"
    /\ UNCHANGED <<raw_availability, semester_weeks, earlier>>
    /\ UNCHANGED <<scheduleVars, schedulerVars, validateVars, allocVars>>

\* New format: the loop over the blackouts and the return.
expand_blackouts ==
    /\ phase = "exceptions"
    /\ IF blackouts_raise(raw_availability.blackouts)
       THEN phase' = "raised" /\ UNCHANGED availability
       ELSE /\ availability' = apply_blackouts(1, or_empty(raw_availability.blackouts),
                                               semester_weeks, availability)
            /\ phase' = "returned"
    /\ UNCHANGED <<raw_availability, semester_weeks, earlier>>
    /\ UNCHANGED <<scheduleVars, schedulerVars, validateVars, allocVars>>

\* The caller calls _expand_availability again with the same two arguments;
\* the new call starts with its own empty set (line 94).
call_again ==
    /\ phase = "returned"
    /\ Len(earlier) + 1 < MaxCalls
    /\ earlier' = Append(earlier, availability)
    /\ availability' = {}
    /\ phase' = "called"
    /\ UNCHANGED <<raw_availability, semester_weeks>>
    /\ UNCHANGED <<scheduleVars, schedulerVars, validateVars, allocVars>>

NextLoader ==
    \/ expand_old_format
    \/ expand_unknown_format
    \/ expand_patterns
    \/ expand_exceptions
    \/ expand_blackouts
    \/ call_again

\* A call of _expand_availability; Parts I and II are not in use.
LoaderInit == IdleScheduler /\ InitSchedule /\ InitLoader /\ IdleValidate /\ IdleAllocator

LoaderSpec == LoaderInit /\ [][NextLoader]_vars

(***************************************************************************)
(* Claims about _expand_availability                                       *)
(***************************************************************************)

\* The entries of a list-valued field of the raw value (none if absent).
FieldEntries(value) == IF value.t = "list" THEN value.v ELSE <<>>

\* The lowest and highest week of a blackout, its bounds taken in either order.
BlackoutFirstWeek(blk) ==
    IF blk.from_week.v <= blk.to_week.v THEN blk.from_week.v ELSE blk.to_week.v
BlackoutLastWeek(blk) ==
    IF blk.from_week.v <= blk.to_week.v THEN blk.to_week.v ELSE blk.from_week.v

\* The letters, to compare names without regard to case.
UpperLetters == <<"A", "B", "C", "D", "E", "F", "G", "H", "I", "J", "K", "L", "M",
                  "N", "O", "P", "Q", "R", "S", "T", "U", "V", "W", "X", "Y", "Z">>
LowerLetters == <<"a", "b", "c", "d", "e", "f", "g", "h", "i", "j", "k", "l", "m",
                  "n", "o", "p", "q", "r", "s", "t", "u", "v", "w", "x", "y", "z">>
LowerCase(chars) ==
    [i \in 1..Len(chars) |->
        IF \E k \in 1..26 : UpperLetters[k] = chars[i]
        THEN LowerLetters[CHOOSE k \in 1..26 : UpperLetters[k] = chars[i]]
        ELSE chars[i]]

\* The English weekday names, Monday to Friday, in lower case.
WeekdayNames ==
    << <<"m", "o", "n", "d", "a", "y">>,
       <<"t", "u", "e", "s", "d", "a", "y">>,
       <<"w", "e", "d", "n", "e", "s", "d", "a", "y">>,
       <<"t", "h", "u", "r", "s", "d", "a", "y">>,
       <<"f", "r", "i", "d", "a", "y">> >>

\* Whether name denotes weekday d: in any case, the full name or its first
\* three letters.
NamesWeekday(name, d) ==
    LowerCase(name) \in {WeekdayNames[d], SubSeq(WeekdayNames[d], 1, 3)}

\* The weekdays a blackout lists: those its names denote, and all five when
\* it lists nothing.
BlackoutWeekdays(blk) ==
    LET names == FieldEntries(blk.days)
    IN IF Len(names) = 0 THEN 1..5
       ELSE {d \in 1..5 : \E i \in 1..Len(names) :
                 names[i].t = "str" /\ NamesWeekday(names[i].v, d)}

\* A blackout with both of its week bounds given.
WellFormedBlackout(blk) ==
    blk.t = "dict" /\ blk.from_week.t = "int" /\ blk.to_week.t = "int"

\* C8: in the set returned for a pattern-schema input no morning or afternoon
\* slot remains for any week in a blackout's inclusive range (its bounds taken
\* in either order) and any weekday the blackout lists (all five when its list
\* is empty), whatever the patterns and the exceptions inserted.
C8_BlackoutsOverrideEverything ==
    (phase = "returned" /\ raw_availability.t = "dict") =>
        \A k \in 1..Len(FieldEntries(raw_availability.blackouts)) :
            LET blk == FieldEntries(raw_availability.blackouts)[k]
            IN WellFormedBlackout(blk) =>
                   \A w \in BlackoutFirstWeek(blk)..BlackoutLastWeek(blk) :
                       \A d \in BlackoutWeekdays(blk) :
                           \A s \in TimeSlot : <<w, d, s>> \notin availability

\* Whether the text is a decimal number, surrounding blanks allowed.
IsNumberText(chars) ==
    LET digits == strip(chars)
    IN Len(digits) > 0 /\ \A i \in 1..Len(digits) : IsDigit(digits[i])

NumberOfText(chars) == DecimalValue(strip(chars))

\* Whether week w is in the part of a week expression: the part is the number
\* w, or a range of two numbers that has w between them, in either order.
InWeekPart(part, w) ==
    IF \A i \in 1..Len(part) : part[i] # "-"
    THEN IsNumberText(part) /\ NumberOfText(part) = w
    ELSE LET dash == FirstIndex(part, "-")
             a == SubSeq(part, 1, dash - 1)
             b == SubSeq(part, dash + 1, Len(part))
         IN /\ IsNumberText(a)
            /\ IsNumberText(b)
            /\ \/ NumberOfText(a) <= w /\ w <= NumberOfText(b)
               \/ NumberOfText(b) <= w /\ w <= NumberOfText(a)

\* The weeks of a pattern: those of 1..semester_weeks in a part of its
\* comma-separated week expression, every week when it gives none.
PatternWeeks(pattern) ==
    IF pattern.weeks.t = "missing" THEN 1..semester_weeks
    ELSE IF pattern.weeks.t # "str" THEN {}
    ELSE LET parts == split(pattern.weeks.v, ",")
         IN {w \in 1..semester_weeks : \E i \in 1..Len(parts) : InWeekPart(parts[i], w)}

\* The name a time slot is listed by.
SlotName(s) == IF s = MORNING THEN SlotM ELSE SlotA

\* The slots a pattern declares: a week of its expression, a weekday named in
\* its days map, a slot listed for that weekday.
PatternDeclares(pattern) ==
    IF pattern.t # "dict" \/ pattern.days.t # "dict" THEN {}
    ELSE {slot \in (1..semester_weeks) \X (1..5) \X TimeSlot :
            /\ slot[1] \in PatternWeeks(pattern)
            /\ \E i \in 1..Len(pattern.days.items) :
                   LET name == pattern.days.items[i][1]
                       listed == pattern.days.items[i][2]
                   IN /\ <<strip(name), slot[2]>> \in DAY_NAME_TO_INT
                      /\ listed.t = "list"
                      /\ \E j \in 1..Len(listed.v) : listed.v[j] = SlotName(slot[3])}

\* C9: with no exceptions and no blackouts the set returned for a
\* pattern-schema input is exactly the union, over the patterns, of the slots
\* (w, d, s) with w in the pattern's week expression, d a weekday named in its
\* days map and s a slot listed for that weekday.
C9_PatternsUnion ==
    ( /\ phase = "returned"
      /\ raw_availability.t = "dict"
      /\ Len(FieldEntries(raw_availability.exceptions)) = 0
      /\ Len(FieldEntries(raw_availability.blackouts)) = 0 ) =>
        availability =
            UNION {PatternDeclares(FieldEntries(raw_availability.patterns)[k]) :
                       k \in 1..Len(FieldEntries(raw_availability.patterns))}

\* An entry of an explicit list that is valid: three elements, a week of
\* 0..semester_weeks-1 and a weekday of 1..5.
ValidEntry(item) ==
    /\ item.t = "list"
    /\ Len(item.v) = 3
    /\ item.v[1].t = "int"
    /\ item.v[2].t = "int"
    /\ 1 <= item.v[2].v /\ item.v[2].v <= 5
    /\ 0 <= item.v[1].v /\ item.v[1].v < semester_weeks

\* C10: the set returned for an explicit list is exactly the set of its valid
\* entries, each as written: every valid entry is in it, and every slot in it
\* is a valid entry of the list with that week, weekday and time slot name.
C10_ListValidEntriesVerbatim ==
    (phase = "returned" /\ raw_availability.t = "list") =>
        /\ \A i \in 1..Len(raw_availability.v) :
               LET item == raw_availability.v[i]
               IN (ValidEntry(item) /\ item.v[3] \in {SlotM, SlotA}) =>
                      \E s \in TimeSlot :
                          /\ SlotName(s) = item.v[3]
                          /\ <<item.v[1].v, item.v[2].v, s>> \in availability
        /\ \A slot \in availability :
               \E i \in 1..Len(raw_availability.v) :
                   LET item == raw_availability.v[i]
                   IN /\ ValidEntry(item)
                      /\ item.v[1].v = slot[1]
                      /\ item.v[2].v = slot[2]
                      /\ item.v[3] = SlotName(slot[3])

\* C11: every triple of the returned set is a TimeSlot key of the semester:
\* a week of 0..semester_weeks-1, a weekday of 1..5, morning or afternoon,
\* whether it came from a list entry, a pattern or an exception's add.
C11_ReturnedSlotsAreSemesterKeys ==
    phase = "returned" =>
        \A slot \in availability :
            /\ 0 <= slot[1] /\ slot[1] < semester_weeks
            /\ 1 <= slot[2] /\ slot[2] <= 5
            /\ slot[3] \in TimeSlot

\* C12: _expand_availability never raises, whatever the raw value: a malformed
\* pattern, exception, blackout or list entry is ignored on its own; and a
\* value that is neither a list nor an object yields the empty set.
C12_NeverRaises ==
    /\ phase # "raised"
    /\ (phase = "returned" /\ raw_availability.t \notin {"list", "dict"}) => availability = {}

\* C13: a weekday name is recognised case-insensitively by its three-letter
\* prefix or its full English name: with patterns only, every slot listed
\* under such a name for a week of the pattern is in the returned set, and
\* every returned slot was listed under a name of its weekday.
C13_WeekdayNamesCaseInsensitive ==
    ( /\ phase = "returned"
      /\ raw_availability.t = "dict"
      /\ Len(FieldEntries(raw_availability.exceptions)) = 0
      /\ Len(FieldEntries(raw_availability.blackouts)) = 0 ) =>
        LET patterns == FieldEntries(raw_availability.patterns)
            Lists(k, d, s) ==
                /\ patterns[k].t = "dict"
                /\ patterns[k].days.t = "dict"
                /\ \E i \in 1..Len(patterns[k].days.items) :
                       LET name == patterns[k].days.items[i][1]
                           listed == patterns[k].days.items[i][2]
                       IN /\ NamesWeekday(name, d)
                          /\ listed.t = "list"
                          /\ \E j \in 1..Len(listed.v) : listed.v[j] = SlotName(s)
        IN /\ \A k \in 1..Len(patterns), d \in 1..5, s \in TimeSlot :
                  Lists(k, d, s) =>
                      \A w \in PatternWeeks(patterns[k]) : <<w, d, s>> \in availability
           /\ \A slot \in availability :
                  \E k \in 1..Len(patterns) :
                      /\ patterns[k].t = "dict"
                      /\ patterns[k].days.t = "dict"
                      /\ \E i \in 1..Len(patterns[k].days.items) :
                             NamesWeekday(strip(patterns[k].days.items[i][1]), slot[2])

ExceptionNames(exc, listed, slot) ==
    /\ exc.t = "dict"
    /\ exc.week.t = "int"
    /\ exc.week.v = slot[1]
    /\ exc.day.t = "str"
    /\ <<exc.day.v, slot[2]>> \in DAY_NAME_TO_INT
    /\ listed.t = "list"
    /\ \E j \in 1..Len(listed.v) : listed.v[j] = SlotName(slot[3])

\* C26: exceptions are applied as removes then adds: a slot of the semester
\* named in a remove and in an add of the exceptions list, in one entry or
\* in two entries in either order, is in the set after the exceptions phase,
\* and in the result when there are no blackouts.
C26_RemovesThenAdds ==
    ( /\ raw_availability.t = "dict"
      /\ \/ phase = "exceptions"
         \/ phase = "returned" /\ Len(FieldEntries(raw_availability.blackouts)) = 0 ) =>
        LET exceptions == FieldEntries(raw_availability.exceptions)
        IN \A slot \in (1..semester_weeks) \X (1..5) \X TimeSlot :
               ( /\ \E i \in 1..Len(exceptions) :
                        ExceptionNames(exceptions[i], exceptions[i].remove, slot)
                 /\ \E j \in 1..Len(exceptions) :
                        ExceptionNames(exceptions[j], exceptions[j].add, slot) ) =>
                   slot \in availability

\* C27: a time slot name other than "morning" and "afternoon" contributes no
\* slot: every slot of the returned set was requested by a list entry, a
\* pattern day list or an exception add that names exactly its time slot.
C27_UnknownSlotNamesDropped ==
    phase = "returned" =>
        \A slot \in availability :
            IF raw_availability.t = "list"
            THEN \E i \in 1..Len(raw_availability.v) :
                     LET item == raw_availability.v[i]
                     IN /\ item.t = "list"
                        /\ Len(item.v) = 3
                        /\ item.v[1] = JInt(slot[1])
                        /\ item.v[2] = JInt(slot[2])
                        /\ item.v[3] = SlotName(slot[3])
            ELSE LET patterns == FieldEntries(raw_availability.patterns)
                     exceptions == FieldEntries(raw_availability.exceptions)
                 IN \/ \E k \in 1..Len(patterns) : slot \in PatternDeclares(patterns[k])
                    \/ \E i \in 1..Len(exceptions) :
                           ExceptionNames(exceptions[i], exceptions[i].add, slot)

\* C28: a blackout with a non-empty days list removes slots only on the
\* weekdays its list names, so one that lists only unrecognised names removes
\* nothing: every slot the blackouts phase removes is in the week range of a
\* blackout whose days list is empty or names the slot's weekday.
C28_BlackoutRemovesOnlyNamedDays ==
    [][ (phase = "exceptions" /\ phase' = "returned") =>
            LET blackouts == FieldEntries(raw_availability.blackouts)
            IN \A slot \in availability \ availability' :
                   \E k \in 1..Len(blackouts) :
                       /\ WellFormedBlackout(blackouts[k])
                       /\ BlackoutFirstWeek(blackouts[k]) <= slot[1]
                       /\ slot[1] <= BlackoutLastWeek(blackouts[k])
                       /\ LET names == FieldEntries(blackouts[k].days)
                          IN \/ Len(names) = 0
                             \/ \E i \in 1..Len(names) :
                                    names[i].t = "str" /\ NamesWeekday(names[i].v, slot[2]) ]_vars

(***************************************************************************)
(* Part IV.  scheduler.py: Subject(...) and Scheduler(...) construction    *)
(***************************************************************************)

\* The maxima Scheduler.__init__ and Subject.__post_init__ enforce.
MAX_LECTURERS == 20
MAX_SUBJECTS == 15
MAX_ROOMS == 10
MAX_STUDENT_GROUPS == 5
MAX_REQUIRED_BLOCKS == 50

\* How far beyond a maximum the counts of the inputs go.
MaxExcess == 1

\* The counts tried against a maximum: none, and those around the maximum.
CountsAround(limit) == {0} \cup (limit - 1)..(limit + MaxExcess)

\* Lecturer lists, each lecturer with a subject id of his own (the ids
\* continue beyond the subjects that exist), and short lists in which a
\* subject id occurs twice.
LecturerListChoices ==
    { [i \in 1..n |-> [id |-> i, subject_id |-> i, importance |-> 1, availability |-> {}]] :
        n \in CountsAround(MAX_LECTURERS) }
    \cup { [i \in 1..Len(ids) |-> [id |-> i, subject_id |-> ids[i], importance |-> 1,
                                   availability |-> {}]] :
             ids \in {<<1, 1>>, <<1, 2, 1>>, <<2, 1, 2>>, <<1, 2, 3, 3>>, <<3, 2, 1>>} }
    \cup { [i \in 1..(MAX_LECTURERS + 1) |->
               [id |-> i, subject_id |-> 1, importance |-> 1, availability |-> {}]] }

\* No construction is running and no Scheduler exists.
NoScheduler ==
    /\ lecturers = <<>>
    /\ subjects = <<>>
    /\ rooms = <<>>
    /\ student_groups = <<>>
    /\ semester_start = 0
    /\ semester_end = 0
    /\ preferred_days = <<>>
    /\ schedule = <<>>
    /\ loop = [pc |-> "idle"]
    /\ returned = <<>>
    /\ top_call = [count |-> 0, result |-> <<>>]

\* The caller is about to build the Subject objects (all with the same
\* required_blocks) and then the Scheduler from these arguments.
InitConstruction ==
    /\ NoScheduler
    /\ \E ls \in LecturerListChoices,
          ns \in CountsAround(MAX_SUBJECTS),
          nr \in CountsAround(MAX_ROOMS),
          ng \in CountsAround(MAX_STUDENT_GROUPS),
          rb \in (MAX_REQUIRED_BLOCKS - 1)..(MAX_REQUIRED_BLOCKS + MaxExcess) :
          ctor = [pc |-> "new",
                  lecturers |-> ls,
                  subjects |-> [i \in 1..ns |-> [id |-> i, required_blocks |-> rb]],
                  rooms |-> [i \in 1..nr |-> i],
                  student_groups |-> [i \in 1..ng |-> i],
                  error |-> "none",
                  lecturers_by_subject |-> <<>>]

\* Subject.__post_init__ of the subjects the caller builds: ValueError for
\* more than 50 required blocks.
Subject_post_init ==
    /\ ctor.pc = "new"
    /\ IF \E i \in 1..Len(ctor.subjects) : ctor.subjects[i].required_blocks > MAX_REQUIRED_BLOCKS
       THEN ctor' = [ctor EXCEPT !.pc = "raised", !.error = "ValueError: blocks"]
       ELSE ctor' = [ctor EXCEPT !.pc = "subjects"]
    /\ UNCHANGED <<lecturers, subjects, rooms, student_groups, semester_start, semester_end,
                   preferred_days, schedule, loop, returned, top_call>>
    /\ UNCHANGED <<scheduleVars, loaderVars, validateVars, allocVars>>

\* Mutant of has_duplicate_subject: a second lecturer of a subject id is
\* accepted.
has_duplicate_subject_tolerant(ls) == FALSE

\* Whether the loop that fills lecturers_by_subject meets a subject id that
\* an earlier lecturer already has.
has_duplicate_subject(ls) ==
    \E i \in 1..Len(ls) : \E j \in 1..(i - 1) : ls[j].subject_id = ls[i].subject_id

\* lecturers_by_subject as the loop leaves it when it does not raise: the
\* lecturer (by position) of each subject id.
lecturers_by_subject_of(ls) ==
    [sid \in {ls[i].subject_id : i \in 1..Len(ls)} |->
        CHOOSE i \in 1..Len(ls) : ls[i].subject_id = sid]

\* Mutant of init_error: each check accepts one more than its maximum.
init_error_off_by_one(args) ==
    IF Len(args.lecturers) > MAX_LECTURERS + 1 THEN "ValueError: lecturers"
    ELSE IF Len(args.subjects) > MAX_SUBJECTS + 1 THEN "ValueError: subjects"
    ELSE IF Len(args.rooms) > MAX_ROOMS + 1 THEN "ValueError: rooms"
    ELSE IF Len(args.student_groups) > MAX_STUDENT_GROUPS + 1 THEN "ValueError: student groups"
    ELSE IF has_duplicate_subject(args.lecturers) THEN "ValueError: multiple lecturers"
    ELSE "none"

\* The error Scheduler.__init__ raises for its arguments, "none" if it
\* completes: the four counts in the order of the checks, then the lookup.
init_error(args) ==
    IF Len(args.lecturers) > MAX_LECTURERS THEN "ValueError: lecturers"
    ELSE IF Len(args.subjects) > MAX_SUBJECTS THEN "ValueError: subjects"
    ELSE IF Len(args.rooms) > MAX_ROOMS THEN "ValueError: rooms"
    ELSE IF Len(args.student_groups) > MAX_STUDENT_GROUPS THEN "ValueError: student groups"
    ELSE IF has_duplicate_subject(args.lecturers) THEN "ValueError: multiple lecturers"
    ELSE "none"

\* Scheduler.__init__: the checks, then the fields of the new object.
Scheduler_init ==
    /\ ctor.pc = "subjects"
    /\ IF init_error(ctor) # "none"
       THEN /\ ctor' = [ctor EXCEPT !.pc = "raised", !.error = init_error(ctor)]
            /\ UNCHANGED <<lecturers, subjects, rooms, student_groups, schedule, preferred_days>>
       ELSE /\ lecturers' = ctor.lecturers
            /\ subjects' = [sid \in {ctor.subjects[i].id : i \in 1..Len(ctor.subjects)} |->
                               ctor.subjects[CHOOSE i \in 1..Len(ctor.subjects) :
                                                 ctor.subjects[i].id = sid].required_blocks]
            /\ rooms' = ctor.rooms
            /\ student_groups' = ctor.student_groups
            /\ schedule' = <<>>
            /\ preferred_days' = [i \in 1..Len(ctor.lecturers) |-> {}]
            /\ ctor' = [ctor EXCEPT !.pc = "constructed",
                                    !.lecturers_by_subject = lecturers_by_subject_of(ctor.lecturers)]
    /\ UNCHANGED <<semester_start, semester_end, loop, returned, top_call>>
    /\ UNCHANGED <<scheduleVars, loaderVars, validateVars, allocVars>>

NextConstruction ==
    \/ Subject_post_init
    \/ Scheduler_init

\* The construction of a Scheduler; nothing else is in use.
ConstructionInit == InitSchedule /\ IdleLoader /\ InitConstruction /\ IdleValidate /\ IdleAllocator

ConstructionSpec == ConstructionInit /\ [][NextConstruction]_vars

\* Whether a count of the arguments exceeds its maximum.
ExceedsMaximum ==
    \/ Len(ctor.lecturers) > 20
    \/ Len(ctor.subjects) > 15
    \/ Len(ctor.rooms) > 10
    \/ Len(ctor.student_groups) > 5

\* Whether two lecturers of the arguments have the same subject id.
SharedSubject ==
    \E i \in 1..Len(ctor.lecturers), j \in 1..Len(ctor.lecturers) :
        i # j /\ ctor.lecturers[i].subject_id = ctor.lecturers[j].subject_id

\* C17: exceeding a maximum is rejected at construction with ValueError:
\* Subject(...) raises for more than 50 required blocks and Scheduler(...) for
\* more than 20 lecturers, 15 subjects, 10 rooms or 5 student groups; counts
\* up to the maxima are accepted (a Scheduler is constructed unless two
\* lecturers share a subject), and a constructed Scheduler holds no count
\* above a maximum.
C17_MaximaRejectedAtConstruction ==
    /\ ctor.pc \in {"subjects", "constructed"} =>
           \A i \in 1..Len(ctor.subjects) : ctor.subjects[i].required_blocks <= 50
    /\ (ctor.pc = "raised" /\ ctor.error = "ValueError: blocks") =>
           \E i \in 1..Len(ctor.subjects) : ctor.subjects[i].required_blocks > 50
    /\ ctor.pc = "constructed" =>
           /\ ~ExceedsMaximum
           /\ Len(lecturers) <= 20 /\ Cardinality(DOMAIN subjects) <= 15
           /\ Len(rooms) <= 10 /\ Len(student_groups) <= 5
    /\ (ctor.pc = "raised" /\ ctor.error # "ValueError: blocks") =>
           (ExceedsMaximum \/ SharedSubject)
    /\ (ctor.pc = "raised" /\ ExceedsMaximum /\ ctor.error # "ValueError: blocks") =>
           ctor.error \in {"ValueError: lecturers", "ValueError: subjects",
                           "ValueError: rooms", "ValueError: student groups"}

\* C17's case: a Scheduler was constructed with every count at its maximum
\* and subjects of exactly 50 blocks.
C17_Witness ==
    /\ ctor.pc = "constructed"
    /\ Len(lecturers) = 20 /\ Cardinality(DOMAIN subjects) = 15
    /\ Len(rooms) = 10 /\ Len(student_groups) = 5
    /\ \A sid \in DOMAIN subjects : subjects[sid] = 50

C19_HigherImportanceNotFewerBlocks ==
    \A k \in 1..Len(returned) : \A i \in 1..Len(lecturers), j \in 1..Len(lecturers) :
        ( /\ lecturers[i].importance > lecturers[j].importance
          /\ lecturers[i].availability = lecturers[j].availability
          /\ lecturers[i].subject_id \in DOMAIN subjects
          /\ lecturers[j].subject_id \in DOMAIN subjects
          /\ subjects[lecturers[i].subject_id] = subjects[lecturers[j].subject_id] ) =>
            BlocksOf(returned[k], i) >= BlocksOf(returned[k], j)

\* C19's case: among three lecturers, two with the same availability and the
\* same required blocks, the more important of them with strictly more blocks
\* in a returned list, and the third lecturer with blocks too.
C19_Witness ==
    \E k \in 1..Len(returned) : \E i \in 1..Len(lecturers), j \in 1..Len(lecturers) :
        /\ Len(lecturers) = 3
        /\ lecturers[i].importance > lecturers[j].importance
        /\ lecturers[i].availability = lecturers[j].availability
        /\ lecturers[i].subject_id \in DOMAIN subjects
        /\ lecturers[j].subject_id \in DOMAIN subjects
        /\ subjects[lecturers[i].subject_id] = subjects[lecturers[j].subject_id]
        /\ BlocksOf(returned[k], i) > BlocksOf(returned[k], j)
        /\ BlocksOf(returned[k], 3) > 0

(***************************************************************************)
(* Part V.  scheduler.py: Scheduler.get_top_lecturers as a function        *)
(***************************************************************************)

\* Most lecturers of a Scheduler get_top_lecturers is called on.
MaxLecturers == 4
\* Highest importance among them.
MaxImportance == 3

\* The lecturer lists: every sequence of importances, the ids in input order.
TopLecturerChoices ==
    UNION { { [i \in 1..n |-> [id |-> i, subject_id |-> i, importance |-> imp[i],
                               availability |-> {}]] : imp \in [1..n -> 1..MaxImportance] } :
            n \in 0..MaxLecturers }

\* A constructed Scheduler with these lecturers; no call has been made.
InitTop ==
    /\ lecturers \in TopLecturerChoices
    /\ subjects = <<>>
    /\ rooms = <<>>
    /\ student_groups = <<>>
    /\ semester_start = 0
    /\ semester_end = 0
    /\ preferred_days = [i \in 1..Len(lecturers) |-> {}]
    /\ schedule = <<>>
    /\ loop = [pc |-> "idle"]
    /\ returned = <<>>
    /\ ctor = [pc |-> "idle"]
    /\ top_call = [count |-> 0, result |-> <<>>]

\* A call get_top_lecturers(count); the result is kept as positions in
\* Scheduler.lecturers.
get_top_lecturers_call(count) ==
    /\ top_call' = [count |-> count, result |-> get_top_lecturers(lecturers, count)]
    /\ UNCHANGED <<lecturers, subjects, rooms, student_groups, semester_start, semester_end,
                   preferred_days, schedule, loop, returned, ctor>>
    /\ UNCHANGED <<scheduleVars, loaderVars, validateVars, allocVars>>

NextTop == \E count \in 0..(MaxLecturers + 1) : get_top_lecturers_call(count)

TopInit == InitSchedule /\ IdleLoader /\ InitTop /\ IdleValidate /\ IdleAllocator

TopSpec == TopInit /\ [][NextTop]_vars

\* C20: get_top_lecturers(n) returns exactly min(n, number of lecturers)
\* lecturers, each once, in descending importance, no lecturer left out more
\* important than one returned, and lecturers of equal importance in their
\* input order.
C20_TopLecturers ==
    LET result == top_call.result
        n == top_call.count
        returnedOnes == {result[p] : p \in 1..Len(result)}
    IN /\ Len(result) = IF n < Len(lecturers) THEN n ELSE Len(lecturers)
       /\ returnedOnes \subseteq 1..Len(lecturers)
       /\ Cardinality(returnedOnes) = Len(result)
       /\ \A p \in 1..Len(result), q \in 1..Len(result) :
              p < q =>
                  /\ lecturers[result[p]].importance >= lecturers[result[q]].importance
                  /\ lecturers[result[p]].importance = lecturers[result[q]].importance =>
                         result[p] < result[q]
       /\ \A out \in (1..Len(lecturers)) \ returnedOnes : \A in \in returnedOnes :
              /\ lecturers[out].importance <= lecturers[in].importance
              /\ lecturers[out].importance = lecturers[in].importance => in < out

\* C20's case: a call that left a lecturer out, returned two lecturers of
\* equal importance and put a later lecturer before an earlier one.
C20_Witness ==
    /\ 0 < top_call.count /\ top_call.count < Len(lecturers)
    /\ \E p \in 1..Len(top_call.result), q \in 1..Len(top_call.result) :
           /\ p < q
           /\ lecturers[top_call.result[p]].importance = lecturers[top_call.result[q]].importance
    /\ \E p \in 1..Len(top_call.result), q \in 1..Len(top_call.result) :
           p < q /\ top_call.result[p] > top_call.result[q]

(***************************************************************************)
(* Part VI.  validate_input.py: validate_data, the lecturer's availability *)
(***************************************************************************)

\* The data validated: one lecturer entry, the subjects, groups and the
\* configuration being valid (weeks = SemesterWeeks, five days per week).

\* The keys of a pattern-schema object, in the order the wizard writes them.
KeyPatterns == <<"p", "a", "t", "t", "e", "r", "n", "s">>
KeyExceptions == <<"e", "x", "c", "e", "p", "t", "i", "o", "n", "s">>
KeyBlackouts == <<"b", "l", "a", "c", "k", "o", "u", "t", "s">>

\* Iterating a dict yields its keys.
dict_keys(avail) ==
    (IF avail.patterns.t = "missing" THEN <<>> ELSE <<JStr(KeyPatterns)>>)
    \o (IF avail.exceptions.t = "missing" THEN <<>> ELSE <<JStr(KeyExceptions)>>)
    \o (IF avail.blackouts.t = "missing" THEN <<>> ELSE <<JStr(KeyBlackouts)>>)

\* What `enumerate(l.get("availability", []))` yields: the elements of a list,
\* the keys of a dict, the characters of a string, nothing when the key is
\* absent.
validate_items(avail) ==
    CASE avail.t = "list" -> avail.v
      [] avail.t = "dict" -> dict_keys(avail)
      [] avail.t = "str" -> [i \in 1..Len(avail.v) |-> JStr(<<avail.v[i]>>)]
      [] OTHER -> <<>>

\* Whether the loop over the availability raises: the value cannot be
\* iterated (None, a number), or a triple's timeslot cannot be hashed for
\* `t not in ALLOWED_TIMESLOTS`.
validate_raises(avail) ==
    \/ avail.t \in {"null", "int"}
    \/ /\ avail.t = "list"
       /\ \E i \in 1..Len(avail.v) :
              /\ avail.v[i].t = "list"
              /\ Len(avail.v[i].v) = 3
              /\ unhashable(avail.v[i].v[3])

\* The errors the first loop appends for the item at position idx (0-based).
item_errors(idx, slot) ==
    IF ~(slot.t = "list" /\ Len(slot.v) = 3)
    THEN <<[kind |-> "shape", idx |-> idx]>>
    ELSE LET w == slot.v[1]
             d == slot.v[2]
             t == slot.v[3]
         IN (IF ~is_int(w) \/ w.v < 0 THEN <<[kind |-> "week", idx |-> idx]>> ELSE <<>>)
            \o (IF ~is_int(d) \/ d.v < 1 THEN <<[kind |-> "day", idx |-> idx]>> ELSE <<>>)
            \o (IF t \notin {SlotM, SlotA} THEN <<[kind |-> "timeslot", idx |-> idx]>> ELSE <<>>)

\* The loop `for idx, slot in enumerate(l.get("availability", []))`.
RECURSIVE availability_errors(_, _)
availability_errors(k, items) ==
    IF k > Len(items) THEN <<>>
    ELSE item_errors(k - 1, items[k]) \o availability_errors(k + 1, items)

\* The final loop, run when no error was found: weeks and days against the
\* configuration.
RECURSIVE bound_errors(_, _, _, _)
bound_errors(k, items, weeks, days) ==
    IF k > Len(items) THEN <<>>
    ELSE (IF items[k].v[1].v >= weeks THEN <<[kind |-> "week_bound", idx |-> k - 1]>> ELSE <<>>)
         \o (IF items[k].v[2].v < 1 \/ items[k].v[2].v > days
             THEN <<[kind |-> "day_bound", idx |-> k - 1]>> ELSE <<>>)
         \o bound_errors(k + 1, items, weeks, days)

\* The availability values validated: explicit lists, one of them with a
\* timeslot that is a list; pattern objects as the wizard builds them and
\* with keys left out; values of neither shape; no availability key.
ValidateChoices ==
    { JList(items) : items \in ListChoices }
    \cup { JList(<<JList(<<JInt(1), JInt(1), JList(<<SlotM>>)>>)>>) }
    \cup { Raw(JList(ps), JList(es), JList(<<>>)) :
               ps \in {<<>>, <<BasePattern>>}, es \in BlackoutExceptions }
    \cup { Raw(JList(<<BasePattern>>), JList(<<>>), JList(<<b>>)) : b \in SimpleBlackouts }
    \cup { Raw(JList(<<BasePattern>>), JMissing, JMissing), Raw(JMissing, JMissing, JMissing),
           JNull, JInt(0), JStr(morning), JMissing }

\* validate_data(data) is called.
InitValidate ==
    \E avail \in ValidateChoices, prio \in {0, 1} :
        report = [pc |-> "called", availability |-> avail, priority |-> prio,
                  weeks |-> SemesterWeeks, days |-> 5, ok |-> FALSE, errors |-> <<>>]

\* validate_data for this lecturer: the priority check, the loop over the
\* availability, and the bounds loop when there was no error.
validate_data ==
    /\ report.pc = "called"
    /\ IF validate_raises(report.availability)
       THEN report' = [report EXCEPT !.pc = "raised"]
       ELSE LET items == validate_items(report.availability)
                errors == (IF report.priority <= 0
                           THEN <<[kind |-> "priority", idx |-> 0]>> ELSE <<>>)
                          \o availability_errors(1, items)
                late == bound_errors(1, items, report.weeks, report.days)
            IN IF errors # <<>>
               THEN report' = [report EXCEPT !.pc = "returned", !.ok = FALSE, !.errors = errors]
               ELSE report' = [report EXCEPT !.pc = "returned", !.ok = (late = <<>>),
                                             !.errors = late]
    /\ UNCHANGED <<scheduleVars, schedulerVars, loaderVars, allocVars>>

NextValidate == validate_data

ValidateInit ==
    InitSchedule /\ IdleScheduler /\ IdleLoader /\ IdleAllocator /\ InitValidate

ValidateSpec == ValidateInit /\ [][NextValidate]_vars

\* An availability in the pattern schema: an object with its three lists.
PatternSchemaObject(avail) ==
    /\ avail.t = "dict"
    /\ avail.patterns.t = "list"
    /\ avail.exceptions.t = "list"
    /\ avail.blackouts.t = "list"

\* C29: validate_data reports no availability error for a lecturer whose
\* availability is a well-formed pattern-schema object, so such data passes
\* validation when the rest of it is valid.
C29_PatternSchemaPassesValidation ==
    (report.pc = "returned" /\ PatternSchemaObject(report.availability)) =>
        /\ \A i \in 1..Len(report.errors) : report.errors[i].kind = "priority"
        /\ report.priority > 0 => report.ok

(***************************************************************************)
(* Part VII.  The three-phase block allocator                              *)
(***************************************************************************)

\* Largest blocks_required among the allocator's subjects.
MaxBlocksRequired == 2

\* RoomType enum values.
THEORY == "theory"
PRACTICAL == "practical"

\* Lecturers with a priority up to this one are priority lecturers.
PriorityLimit == 5
\* Weekdays and half-days of a week.
DaysPerWeek == 5
SlotsPerDay == 2
\* Spread placement gives up after this many attempts.
MaxAttempts == 500

\* The TimeSlot key at an integer position: week = (position // 10) mod weeks,
\* weekday = ((position // 2) mod 5) + 1, morning if the position is even.
key_at(position, weeks) ==
    << (position \div (DaysPerWeek * SlotsPerDay)) % weeks,
       ((position \div SlotsPerDay) % DaysPerWeek) + 1,
       IF position % 2 = 0 THEN MORNING ELSE AFTERNOON >>

\* weeks x 5 x 2
total_slots(weeks) == weeks * DaysPerWeek * SlotsPerDay

\* The first lecturer found for a subject (0 when there is none).
lecturer_of(ls, subject_id) ==
    LET found == {i \in 1..Len(ls) : ls[i].subject_id = subject_id}
    IN IF found = {} THEN 0 ELSE CHOOSE i \in found : \A j \in found : i <= j

\* The subject with an id (0 when there is none).
subject_of(ss, subject_id) ==
    LET found == {i \in 1..Len(ss) : ss[i].id = subject_id}
    IN IF found = {} THEN 0 ELSE CHOOSE i \in found : \A j \in found : i <= j

\* Only a priority lecturer's calendar is binding.
lecturer_free(lecturer, key) ==
    lecturer.priority > PriorityLimit \/ key \in lecturer.availability

\* Mutant of room_for: the first free room, of whatever type.
room_for_any_type(bs, rs, room_type, key, lecturer_id, group_id) ==
    LET free == {i \in 1..Len(rs) :
                    is_slot_available(bs, key[1], key[2], key[3], lecturer_id, rs[i].id, group_id)}
    IN IF free = {} THEN 0 ELSE CHOOSE i \in free : \A j \in free : i <= j

\* The first room of the required type that is free at the key for the
\* lecturer and the group (0 when there is none).
room_for(bs, rs, room_type, key, lecturer_id, group_id) ==
    LET free == {i \in 1..Len(rs) :
                    /\ rs[i].room_type = room_type
                    /\ is_slot_available(bs, key[1], key[2], key[3], lecturer_id, rs[i].id, group_id)}
    IN IF free = {} THEN 0 ELSE CHOOSE i \in free : \A j \in free : i <= j

\* The block a placement attempt would add.
block_for(subject, lecturer, group_id, room_id, key) ==
    [subject_id |-> subject.id, lecturer_id |-> lecturer.id, student_group_id |-> group_id,
     room_id |-> room_id, week |-> key[1], day |-> key[2], timeslot |-> key[3]]

\* Whether a placement attempt at the key succeeds: the lecturer is free, a
\* room of the subject's type is free, and the Schedule accepts the block.
can_place(bs, rs, subject, lecturer, group_id, key) ==
    /\ lecturer_free(lecturer, key)
    /\ room_for(bs, rs, subject.room_type, key, lecturer.id, group_id) # 0
    /\ ~add_block_rejects(bs,
           block_for(subject, lecturer, group_id,
                     rs[room_for(bs, rs, subject.room_type, key, lecturer.id, group_id)].id, key))

\* The Schedule's blocks after a placement attempt at the key.
place(bs, rs, subject, lecturer, group_id, key) ==
    IF can_place(bs, rs, subject, lecturer, group_id, key)
    THEN Append(bs, block_for(subject, lecturer, group_id,
                    rs[room_for(bs, rs, subject.room_type, key, lecturer.id, group_id)].id, key))
    ELSE bs

\* Compact placement from position k on: every key in week, weekday,
\* half-day order until `needed` more blocks are placed or the semester ends.
RECURSIVE compact_from(_, _, _, _, _, _, _, _)
compact_from(k, needed, bs, rs, subject, lecturer, group_id, weeks) ==
    IF needed <= 0 \/ k >= total_slots(weeks) THEN bs
    ELSE IF can_place(bs, rs, subject, lecturer, group_id, key_at(k, weeks))
         THEN compact_from(k + 1, needed - 1,
                           place(bs, rs, subject, lecturer, group_id, key_at(k, weeks)),
                           rs, subject, lecturer, group_id, weeks)
         ELSE compact_from(k + 1, needed, bs, rs, subject, lecturer, group_id, weeks)

\* 4.3b Compact placement of `needed` blocks.
compact_placement(needed, bs, rs, subject, lecturer, group_id, weeks) ==
    compact_from(0, needed, bs, rs, subject, lecturer, group_id, weeks)

\* 4.3a Spread placement: ideal_gap = total_slots / (blocks_required + 1).
ideal_gap(subject, weeks) == total_slots(weeks) \div (subject.blocks_required + 1)

\* The positions of a semester in chronological order.
Positions(weeks) == 0..(total_slots(weeks) - 1)

\* The calendars a priority lecturer of the model may have, as positions:
\* every half-day, the first week only, every half-day but Thursday and
\* Friday of the first week, afternoons only, none.
CalendarChoices(weeks) ==
    { Positions(weeks),
      {k \in Positions(weeks) : k < DaysPerWeek * SlotsPerDay},
      {k \in Positions(weeks) : k < 6 \/ k > 9},
      {k \in Positions(weeks) : k % 2 = 1},
      {} }

\* A lecturer's availability set for a calendar.
availability_of(calendar, weeks) == {key_at(k, weeks) : k \in calendar}

\* OsteopathyScheduler(lecturers, subjects, rooms, student_groups,
\* semester_weeks): a theory subject S1 of the priority lecturer L1, a theory
\* subject S2 of the non-priority lecturer L2, the practical subjects A (of
\* the priority lecturer L3) and B (of the non-priority lecturer L4), two
\* theory rooms and the practical room, one or two student groups.
InitAllocator ==
    \E spread \in BOOLEAN, n1 \in 1..MaxBlocksRequired, nA \in 1..MaxBlocksRequired,
       c1 \in CalendarChoices(SemesterWeeks), c3 \in CalendarChoices(SemesterWeeks),
       two_groups \in BOOLEAN :
        /\ entities =
             [weeks |-> SemesterWeeks,
              subjects |->
                << [id |-> "S1", blocks_required |-> n1, room_type |-> THEORY, spread |-> spread],
                   [id |-> "S2", blocks_required |-> 1, room_type |-> THEORY, spread |-> FALSE],
                   [id |-> "A", blocks_required |-> nA, room_type |-> PRACTICAL, spread |-> FALSE],
                   [id |-> "B", blocks_required |-> 1, room_type |-> PRACTICAL, spread |-> FALSE] >>,
              lecturers |->
                << [id |-> "L1", subject_id |-> "S1", priority |-> 1,
                    availability |-> availability_of(c1, SemesterWeeks)],
                   [id |-> "L2", subject_id |-> "S2", priority |-> 6, availability |-> {}],
                   [id |-> "L3", subject_id |-> "A", priority |-> 2,
                    availability |-> availability_of(c3, SemesterWeeks)],
                   [id |-> "L4", subject_id |-> "B", priority |-> 7, availability |-> {}] >>,
              rooms |->
                << [id |-> "R1", room_type |-> THEORY],
                   [id |-> "R2", room_type |-> THEORY],
                   [id |-> "RP1", room_type |-> PRACTICAL] >>,
              student_groups |->
                IF two_groups
                THEN << [id |-> "G1", subject_ids |-> <<"S1", "S2", "A", "B">>],
                        [id |-> "G2", subject_ids |-> <<"S1", "B">>] >>
                ELSE << [id |-> "G1", subject_ids |-> <<"S1", "S2", "A", "B">>] >>]
        /\ alloc = [pc |-> "phase1", i |-> 1]

\* Whether a group is enrolled in a subject.
enrolled(group, subject_id) ==
    \E i \in 1..Len(group.subject_ids) : group.subject_ids[i] = subject_id

\* The ids of the groups from group k on that are enrolled in a subject.
RECURSIVE select_ids(_, _, _)
select_ids(k, gs, subject_id) ==
    IF k > Len(gs) THEN <<>>
    ELSE (IF enrolled(gs[k], subject_id) THEN <<gs[k].id>> ELSE <<>>)
         \o select_ids(k + 1, gs, subject_id)

\* The ids of the groups enrolled in a subject, in group order.
enrolled_groups(gs, subject_id) == select_ids(1, gs, subject_id)

\* Phase 1's work list from lecturer k on: for every priority lecturer whose
\* subject is a theory subject, one entry per enrolled group.
RECURSIVE phase1_from(_, _)
phase1_from(k, e) ==
    IF k > Len(e.lecturers) THEN <<>>
    ELSE LET lecturer == e.lecturers[k]
             sx == subject_of(e.subjects, lecturer.subject_id)
             groups == IF sx = 0 THEN <<>> ELSE enrolled_groups(e.student_groups, lecturer.subject_id)
         IN (IF lecturer.priority <= PriorityLimit /\ sx # 0 /\ e.subjects[sx].room_type = THEORY
             THEN [g \in 1..Len(groups) |-> [lecturer |-> k, subject |-> sx, group_id |-> groups[g]]]
             ELSE <<>>)
            \o phase1_from(k + 1, e)

\* Phase 1's work list.
phase1_work(e) == phase1_from(1, e)

\* Phase 1, the next lecturer and group: Spread placement starts at position
\* ideal_gap for a subject flagged spread, Compact placement is done otherwise.
phase1_step ==
    /\ alloc.pc = "phase1"
    /\ alloc.i <= Len(phase1_work(entities))
    /\ LET work == phase1_work(entities)[alloc.i]
           subject == entities.subjects[work.subject]
           lecturer == entities.lecturers[work.lecturer]
       IN IF subject.spread
          THEN /\ alloc' = [pc |-> "spread", i |-> alloc.i,
                            position |-> ideal_gap(subject, entities.weeks),
                            attempts |-> 0, needed |-> subject.blocks_required]
               /\ UNCHANGED blocks
          ELSE /\ blocks' = compact_placement(subject.blocks_required, blocks, entities.rooms,
                                              subject, lecturer, work.group_id, entities.weeks)
               /\ alloc' = [alloc EXCEPT !.i = @ + 1]
    /\ UNCHANGED <<ret, arg, entities>>
    /\ UNCHANGED <<schedulerVars, loaderVars, validateVars>>

\* The loop state after one attempt of Spread placement: on success the
\* position advances by ideal_gap, on failure by 1.
spread_after(a, bs, e) ==
    LET work == phase1_work(e)[a.i]
    IN IF can_place(bs, e.rooms, e.subjects[work.subject], e.lecturers[work.lecturer],
                    work.group_id, key_at(a.position, e.weeks))
       THEN [a EXCEPT !.position = @ + ideal_gap(e.subjects[work.subject], e.weeks),
                      !.attempts = @ + 1, !.needed = @ - 1]
       ELSE [a EXCEPT !.position = @ + 1, !.attempts = @ + 1]

\* One attempt of Spread placement, at the key of the current position.
spread_attempt ==
    /\ alloc.pc = "spread"
    /\ alloc.needed > 0
    /\ alloc.attempts < MaxAttempts
    /\ LET work == phase1_work(entities)[alloc.i]
       IN blocks' = place(blocks, entities.rooms, entities.subjects[work.subject],
                          entities.lecturers[work.lecturer], work.group_id,
                          key_at(alloc.position, entities.weeks))
    /\ alloc' = spread_after(alloc, blocks, entities)
    /\ UNCHANGED <<ret, arg, entities>>
    /\ UNCHANGED <<schedulerVars, loaderVars, validateVars>>

\* The end of Spread placement, with every block placed or after MaxAttempts
\* attempts: the shortfall is topped up with Compact placement.
spread_top_up ==
    /\ alloc.pc = "spread"
    /\ alloc.needed <= 0 \/ alloc.attempts >= MaxAttempts
    /\ LET work == phase1_work(entities)[alloc.i]
       IN blocks' = compact_placement(alloc.needed, blocks, entities.rooms,
                                      entities.subjects[work.subject],
                                      entities.lecturers[work.lecturer], work.group_id,
                                      entities.weeks)
    /\ alloc' = [pc |-> "phase1", i |-> alloc.i + 1]
    /\ UNCHANGED <<ret, arg, entities>>
    /\ UNCHANGED <<schedulerVars, loaderVars, validateVars>>

\* n copies of an obligation.
copies(n, obligation) == [k \in 1..n |-> obligation]

\* The obligations of subject sx from group k on: one per required block of
\* every enrolled group.
RECURSIVE group_obligations(_, _, _)
group_obligations(k, e, sx) ==
    IF k > Len(e.student_groups) THEN <<>>
    ELSE (IF enrolled(e.student_groups[k], e.subjects[sx].id)
          THEN copies(e.subjects[sx].blocks_required,
                      [subject |-> sx, group_id |-> e.student_groups[k].id])
          ELSE <<>>)
         \o group_obligations(k + 1, e, sx)

\* Phase 2's obligations from subject sx on: those of the practical subjects
\* that have a lecturer.
RECURSIVE obligations_from(_, _)
obligations_from(sx, e) ==
    IF sx > Len(e.subjects) THEN <<>>
    ELSE (IF e.subjects[sx].room_type = PRACTICAL /\ lecturer_of(e.lecturers, e.subjects[sx].id) # 0
          THEN group_obligations(1, e, sx)
          ELSE <<>>)
         \o obligations_from(sx + 1, e)

\* Phase 2's obligations before the shuffle.
obligations_list(e) == obligations_from(1, e)

\* How often x occurs in a sequence.
occurrences(xs, x) == Cardinality({i \in 1..Len(xs) : xs[i] = x})

\* random.shuffle: every ordering of the list.
shuffles(xs) ==
    LET elements == {xs[i] : i \in 1..Len(xs)}
    IN {ys \in [1..Len(xs) -> elements] : \A x \in elements : occurrences(ys, x) = occurrences(xs, x)}

\* The end of Phase 1: the obligations of Phase 2 are listed and shuffled.
shuffle_obligations ==
    /\ alloc.pc = "phase1"
    /\ alloc.i > Len(phase1_work(entities))
    /\ \E shuffled \in shuffles(obligations_list(entities)) :
        alloc' = [pc |-> "phase2", obligations |-> shuffled, next |-> 1, position |-> 0,
                  placed_at |-> [k \in 1..Len(shuffled) |-> None]]
    /\ UNCHANGED <<blocks, ret, arg, entities>>
    /\ UNCHANGED <<schedulerVars, loaderVars, validateVars>>

\* Mutant of phase2_after: a blocked head obligation is passed over, the key
\* goes to the obligation behind it.
phase2_after_skip_ahead(a, bs, e) ==
    LET obligation == a.obligations[a.next]
        subject == e.subjects[obligation.subject]
        lecturer == e.lecturers[lecturer_of(e.lecturers, subject.id)]
        key == key_at(a.position, e.weeks)
    IN IF ~lecturer_free(lecturer, key)
       THEN [a EXCEPT !.position = @ + 1, !.next = @ + 1]
       ELSE IF can_place(bs, e.rooms, subject, lecturer, obligation.group_id, key)
            THEN [a EXCEPT !.position = @ + 1, !.next = @ + 1,
                           !.placed_at[a.next] = a.position + 1]
            ELSE [a EXCEPT !.position = @ + 1]

\* The allocator's position after one key of Phase 2: the key is skipped
\* without advancing the pointer when the head obligation's priority lecturer
\* is unavailable; otherwise the head obligation is attempted, and the
\* pointer advances when it is placed. (placed_at keeps, per obligation, the
\* 1-based position it was placed at.)
phase2_after(a, bs, e) ==
    LET obligation == a.obligations[a.next]
        subject == e.subjects[obligation.subject]
        lecturer == e.lecturers[lecturer_of(e.lecturers, subject.id)]
        key == key_at(a.position, e.weeks)
    IN IF ~lecturer_free(lecturer, key)
       THEN [a EXCEPT !.position = @ + 1]
       ELSE IF can_place(bs, e.rooms, subject, lecturer, obligation.group_id, key)
            THEN [a EXCEPT !.position = @ + 1, !.next = @ + 1,
                           !.placed_at[a.next] = a.position + 1]
            ELSE [a EXCEPT !.position = @ + 1]

\* The Schedule's blocks after one key of Phase 2.
phase2_blocks(a, bs, e) ==
    LET obligation == a.obligations[a.next]
        subject == e.subjects[obligation.subject]
        lecturer == e.lecturers[lecturer_of(e.lecturers, subject.id)]
    IN place(bs, e.rooms, subject, lecturer, obligation.group_id, key_at(a.position, e.weeks))

\* Phase 2, one key of the chronological walk.
phase2_step ==
    /\ alloc.pc = "phase2"
    /\ alloc.next <= Len(alloc.obligations)
    /\ alloc.position < total_slots(entities.weeks)
    /\ blocks' = phase2_blocks(alloc, blocks, entities)
    /\ alloc' = phase2_after(alloc, blocks, entities)
    /\ UNCHANGED <<ret, arg, entities>>
    /\ UNCHANGED <<schedulerVars, loaderVars, validateVars>>

\* The end of Phase 2: every obligation is placed or the keys are exhausted.
phase2_end ==
    /\ alloc.pc = "phase2"
    /\ alloc.next > Len(alloc.obligations) \/ alloc.position >= total_slots(entities.weeks)
    /\ alloc' = [pc |-> "phase3", i |-> 1, obligations |-> alloc.obligations,
                 placed_at |-> alloc.placed_at]
    /\ UNCHANGED <<blocks, ret, arg, entities>>
    /\ UNCHANGED <<schedulerVars, loaderVars, validateVars>>

\* The blocks of a subject in a block list.
blocks_of(bs, subject_id) == {i \in 1..Len(bs) : bs[i].subject_id = subject_id}

\* Compact placement of a subject for its enrolled groups from group k on.
RECURSIVE compact_groups(_, _, _, _, _)
compact_groups(k, groups, bs, e, sx) ==
    IF k > Len(groups) THEN bs
    ELSE compact_groups(k + 1, groups,
             compact_placement(e.subjects[sx].blocks_required, bs, e.rooms, e.subjects[sx],
                               e.lecturers[lecturer_of(e.lecturers, e.subjects[sx].id)],
                               groups[k], e.weeks),
             e, sx)

\* Phase 3, one subject: a subject with zero scheduled blocks (and a
\* lecturer) is placed with Compact placement for every enrolled group.
phase3_step ==
    /\ alloc.pc = "phase3"
    /\ alloc.i <= Len(entities.subjects)
    /\ blocks' = IF /\ blocks_of(blocks, entities.subjects[alloc.i].id) = {}
                    /\ lecturer_of(entities.lecturers, entities.subjects[alloc.i].id) # 0
                 THEN compact_groups(1, enrolled_groups(entities.student_groups,
                                                        entities.subjects[alloc.i].id),
                                     blocks, entities, alloc.i)
                 ELSE blocks
    /\ alloc' = [alloc EXCEPT !.i = @ + 1]
    /\ UNCHANGED <<ret, arg, entities>>
    /\ UNCHANGED <<schedulerVars, loaderVars, validateVars>>

\* create_schedule returns the Schedule.
create_schedule_return ==
    /\ alloc.pc = "phase3"
    /\ alloc.i > Len(entities.subjects)
    /\ alloc' = [alloc EXCEPT !.pc = "done"]
    /\ UNCHANGED <<blocks, ret, arg, entities>>
    /\ UNCHANGED <<schedulerVars, loaderVars, validateVars>>

NextAllocator ==
    \/ phase1_step
    \/ spread_attempt
    \/ spread_top_up
    \/ shuffle_obligations
    \/ phase2_step
    \/ phase2_end
    \/ phase3_step
    \/ create_schedule_return

AllocatorInit ==
    InitSchedule /\ IdleScheduler /\ IdleLoader /\ IdleValidate /\ InitAllocator

AllocatorSpec == AllocatorInit /\ [][NextAllocator]_vars

(***************************************************************************)
(* Part VII claims                                                         *)
(***************************************************************************)

\* Phase 2 has been entered: alloc carries the shuffled list and placed_at.
InOrAfterPhase2(a) == a.pc \in {"phase2", "phase3", "done"}

\* The head obligation's lecturer is a priority lecturer who is unavailable at
\* the key of the current position.
HeadBlocked(a, e) ==
    LET subject == e.subjects[a.obligations[a.next].subject]
        lecturer == e.lecturers[lecturer_of(e.lecturers, subject.id)]
    IN /\ lecturer.priority <= PriorityLimit
       /\ key_at(a.position, e.weeks) \notin lecturer.availability

\* Placements follow the list: an obligation is placed only when every
\* obligation before it is, and never at an earlier key than one before it.
PlacedInListOrder(a) ==
    \A i, j \in 1..Len(a.obligations) :
        (i < j /\ a.placed_at[j] # None)
            => a.placed_at[i] # None /\ a.placed_at[i] <= a.placed_at[j]

\* C23: in Phase 2 a key at which the head obligation's priority lecturer is
\* unavailable is skipped: no block is placed at it and the pointer stays on
\* the head obligation; so obligations are placed in list order, none at an
\* earlier key than one preceding it, and an obligation that is never placed
\* leaves every later obligation unplaced.
C23_NoSkipAhead ==
    [][ /\ (alloc.pc = "phase2" /\ alloc'.pc = "phase2" /\ HeadBlocked(alloc, entities))
            => (blocks' = blocks /\ alloc'.next = alloc.next
                /\ alloc'.placed_at = alloc.placed_at)
        /\ InOrAfterPhase2(alloc') => PlacedInListOrder(alloc') ]_vars

\* C23 witness: Phase 2 is over, an obligation waited at a key where its
\* priority lecturer was unavailable and was placed later, and the obligation
\* behind it was placed after it.
C23_Witness ==
    /\ alloc.pc = "done"
    /\ \E i \in 1..Len(alloc.obligations) :
        LET subject == entities.subjects[alloc.obligations[i].subject]
            lecturer == entities.lecturers[lecturer_of(entities.lecturers, subject.id)]
            first == IF i = 1 THEN 1 ELSE alloc.placed_at[i - 1] + 1
        IN /\ i < Len(alloc.obligations)
           /\ alloc.placed_at[i] # None
           /\ alloc.placed_at[i + 1] # None
           /\ alloc.placed_at[i + 1] > alloc.placed_at[i]
           /\ lecturer.priority <= PriorityLimit
           /\ i > 1 => alloc.placed_at[i - 1] # None
           /\ \E q \in first..(alloc.placed_at[i] - 1) :
                key_at(q - 1, entities.weeks) \notin lecturer.availability

\* The type of the room with an id.
room_type_of(rs, room_id) ==
    LET i == CHOOSE i \in 1..Len(rs) : rs[i].id = room_id IN rs[i].room_type

\* C24: every block of the allocator's schedule is in a room of its subject's
\* room type: theory subjects in theory rooms, practical subjects in
\* practical rooms, in every phase and both placements.
C24_RoomTypeMatchesSubject ==
    alloc.pc # "idle" =>
        \A i \in 1..Len(blocks) :
            room_type_of(entities.rooms, blocks[i].room_id)
                = entities.subjects[subject_of(entities.subjects, blocks[i].subject_id)].room_type

\* C24 witness: a finished schedule with a block from Spread placement in
\* Phase 1, practical blocks from Phase 2 and a theory block from Phase 3.
C24_Witness ==
    /\ alloc.pc = "done"
    /\ entities.subjects[1].spread
    /\ \E i \in 1..Len(blocks) : blocks[i].subject_id = "S1" /\ blocks[i].room_id \in {"R1", "R2"}
    /\ \E i \in 1..Len(blocks) : blocks[i].subject_id = "S2" /\ blocks[i].room_id \in {"R1", "R2"}
    /\ \E i \in 1..Len(blocks) : blocks[i].subject_id = "A" /\ blocks[i].room_id = "RP1"
    /\ \E i \in 1..Len(blocks) : blocks[i].subject_id = "B" /\ blocks[i].room_id = "RP1"

\* The blocks of a subject for a group.
blocks_for_group(bs, subject_id, group_id) ==
    {i \in 1..Len(bs) : bs[i].subject_id = subject_id /\ bs[i].student_group_id = group_id}

\* C25: a spread subject with N > 1 required blocks, all placed in a semester
\* of at least N weeks, has its blocks in more than one distinct week.
C25_SpreadUsesSeveralWeeks ==
    alloc.pc = "done" =>
        \A sx \in 1..Len(entities.subjects), g \in 1..Len(entities.student_groups) :
            LET subject == entities.subjects[sx]
                placed == blocks_for_group(blocks, subject.id, entities.student_groups[g].id)
            IN (/\ subject.spread
                /\ subject.blocks_required > 1
                /\ entities.weeks >= subject.blocks_required
                /\ Cardinality(placed) = subject.blocks_required)
                   => Cardinality({blocks[i].week : i \in placed}) > 1

====
